---- MODULE Spec2Model ----
(***************************************************************************)
(* Face Touch Monitor (gabriellupu/facetouchmonitor).                      *)
(*                                                                         *)
(* A model of the monitor's state object, of its classifiers              *)
(* (checkFaceTouch, checkPosture) and of the callbacks that drive the two  *)
(* alert state machines: the frame loop, the two repeat timers, and the    *)
(* handlers of the start, stop, reset and settings controls.               *)
(*                                                                         *)
(* Conventions.                                                            *)
(*  - JavaScript null is "null" for a zone or an issue string, NoTimer for *)
(*    a timer handle and NoTime for a timestamp.                           *)
(*  - A landmark coordinate in [0,1] is the integer n that stands for      *)
(*    n / CoordDen; pixel values are then integers for the sample sets.    *)
(*  - getMinDistance returns the SQUARE of the distance the code computes, *)
(*    and a threshold comparison compares squares, so that the strict      *)
(*    comparison of the code is decided exactly.                           *)
(*  - Time is in milliseconds; the clock advances one second at a time.    *)
(***************************************************************************)
EXTENDS Integers, Sequences, FiniteSets, TLC

(***************************************************************************)
(* Bounds of the model.                                                    *)
(***************************************************************************)
\* The clock stops after MaxSeconds seconds.
MaxSeconds == 2
\* A counter that would pass MaxCount blocks the callback that raises it.
MaxCount == 2
\* Only the first MaxRegionPoints indices of each FACE_REGIONS list are used.
MaxRegionPoints == 2
\* At most MaxPending getUserMedia requests are in flight at a time.
MaxPending == 1

(***************************************************************************)
(* Program constants.                                                      *)
(***************************************************************************)
NoTimer == 0
MsPerSecond == 1000
DefaultSensitivity == 100
DefaultAlertCooldownMs == 2000
DefaultPostureCooldownMs == 3000
IdealWidth == 1280
IdealHeight == 720
baseThreshold == 40
zTolerance == 50
NoTime == 0 - 1
CoordDen == 1280 * 9

Min(a, b) == IF a < b THEN a ELSE b

Range(s) == {s[i] : i \in 1..Len(s)}

(***************************************************************************)
(* Face regions and fingertips.                                            *)
(***************************************************************************)
FACE_REGIONS ==
  [mouth |-> <<0, 13, 14, 17, 37, 39, 40, 61, 78, 80, 81, 82, 84, 87, 88, 91,
               95, 146, 178, 181, 185, 191, 267, 269, 270, 291, 308, 310, 311,
               312, 314, 317, 318, 321, 324, 375, 402, 405, 409, 415>>,
   nose |-> <<1, 2, 4, 5, 6, 19, 94, 168, 195, 197, 236, 237, 238, 239, 240,
              241, 242, 250, 456, 457, 458, 459, 460, 461, 462>>,
   leftEye |-> <<33, 7, 163, 144, 145, 153, 154, 155, 133, 173, 157, 158, 159,
                 160, 161, 246>>,
   rightEye |-> <<362, 382, 381, 380, 374, 373, 390, 249, 263, 466, 388, 387,
                  386, 385, 384, 398>>,
   leftCheek |-> <<117, 118, 119, 120, 121, 126, 142, 203, 206, 216, 207, 187>>,
   rightCheek |-> <<346, 347, 348, 349, 350, 355, 371, 423, 426, 436, 427, 411>>,
   chin |-> <<152, 175, 176, 148, 149, 150, 136, 169, 170, 171, 377, 378, 379,
              365, 397, 288, 361, 323>>]

\* The order in which checkFaceTouch pushes the enabled zones.
ZoneOrder ==
  <<"mouth", "nose", "leftEye", "rightEye", "leftCheek", "rightCheek", "chin">>

Zones == Range(ZoneOrder)

FINGERTIPS == <<4, 8, 12, 16, 20>>

\* The indices of a region the model evaluates (a prefix of the list).
RegionIndices(region) ==
  SubSeq(FACE_REGIONS[region], 1, Min(MaxRegionPoints, Len(FACE_REGIONS[region])))

FaceIdx == UNION {Range(RegionIndices(z)) : z \in Zones}

HandIdx == 0..20

(***************************************************************************)
(* Geometry of checkFaceTouch.                                             *)
(***************************************************************************)
\* Landmarks scaled by the ideal size, whatever the size of the canvas is.
ToPixelIdeal(lm, canvas) ==
  [x |-> (lm.x * IdealWidth) \div CoordDen,
   y |-> (lm.y * IdealHeight) \div CoordDen,
   z |-> (lm.z * IdealWidth) \div CoordDen]

\* lm.x * videoWidth, lm.y * videoHeight, lm.z * videoWidth
ToPixel(lm, canvas) ==
  [x |-> (lm.x * canvas.width) \div CoordDen,
   y |-> (lm.y * canvas.height) \div CoordDen,
   z |-> (lm.z * canvas.width) \div CoordDen]

DistSq(point, target) ==
  (point.x - target.x) * (point.x - target.x)
    + (point.y - target.y) * (point.y - target.y)

\* The square of the least distance from point to the targets.
getMinDistance(point, targets) ==
  LET RECURSIVE Loop(_, _)
      Loop(i, minDist) ==
        IF i > Len(targets) THEN minDist
        ELSE LET dist == DistSq(point, targets[i])
             IN Loop(i + 1, IF minDist < 0 \/ dist < minDist THEN dist ELSE minDist)
  IN Loop(1, 0 - 1)

\* minDist < baseThreshold / (sensitivity / 100), on the squared distance:
\* minDistSq * sensitivity^2 < (baseThreshold * 100)^2, decided without overflow.
\* A sensitivity of 0 divides by zero: the threshold is Infinity.
WithinThreshold(minDistSq, sensitivity) ==
  LET num == (baseThreshold * 100) * (baseThreshold * 100)
      den == sensitivity * sensitivity
  IN IF minDistSq < 0 THEN FALSE
     ELSE IF sensitivity = 0 THEN TRUE
     ELSE IF sensitivity < 0 THEN FALSE
     ELSE IF num % den = 0 THEN minDistSq < num \div den
     ELSE minDistSq <= num \div den

SumZ(points) ==
  LET RECURSIVE Sum(_)
      Sum(i) == IF i > Len(points) THEN 0 ELSE points[i].z + Sum(i + 1)
  IN Sum(1)

\* The depth check against the first point of the zone only.
DepthOkFirstPoint(tipPoint, points) == tipPoint.z - points[1].z < zTolerance

\* zDiff < 50, with zDiff = tipPoint.z - avgFaceZ and avgFaceZ the mean z.
DepthOk(tipPoint, points) ==
  tipPoint.z * Len(points) - SumZ(points) < zTolerance * Len(points)

enabledZonesOf(zones) == SelectSeq(ZoneOrder, LAMBDA z : zones[z])

\* The triples with the zones in the outer loop and the hands in the inner one.
TriplesZonesOuter(nHands, enabledZones) ==
  LET nz == Len(enabledZones)
      nf == Len(FINGERTIPS)
  IN [k \in 1..(nHands * nf * nz) |->
        [hand |-> ((k - 1) % nHands) + 1,
         finger |-> (((k - 1) \div nHands) % nf) + 1,
         zone |-> enabledZones[((k - 1) \div (nHands * nf)) + 1]]]

\* The (hand, fingertip, zone) triples in the order the three loops visit them.
Triples(nHands, enabledZones) ==
  LET nz == Len(enabledZones)
      nf == Len(FINGERTIPS)
  IN [k \in 1..(nHands * nf * nz) |->
        [hand |-> ((k - 1) \div (nf * nz)) + 1,
         finger |-> (((k - 1) \div nz) % nf) + 1,
         zone |-> enabledZones[((k - 1) % nz) + 1]]]

\* Whether one triple is accepted as a touch.
Accepts(faceLandmarks, handLandmarksList, settings, canvas, t) ==
  LET tipPoint == ToPixel(handLandmarksList[t.hand][FINGERTIPS[t.finger]], canvas)
      indices == RegionIndices(t.zone)
      points == [j \in 1..Len(indices) |-> ToPixel(faceLandmarks.lm[indices[j]], canvas)]
  IN /\ WithinThreshold(getMinDistance(tipPoint, points), settings.sensitivity)
     /\ DepthOk(tipPoint, points)

\* checkFaceTouch over all seven zones, whatever the settings enable.
checkFaceTouchAllZones(faceLandmarks, handLandmarksList, settings, canvas) ==
  IF ~faceLandmarks.present \/ Len(handLandmarksList) = 0
  THEN [touch |-> FALSE, zone |-> "null"]
  ELSE LET triples == Triples(Len(handLandmarksList), ZoneOrder)
           RECURSIVE Search(_)
           Search(k) ==
             IF k > Len(triples)
             THEN [touch |-> FALSE, zone |-> "null"]
             ELSE IF Accepts(faceLandmarks, handLandmarksList, settings,
                             canvas, triples[k])
             THEN [touch |-> TRUE, zone |-> triples[k].zone]
             ELSE Search(k + 1)
       IN Search(1)

\* checkFaceTouch without the assignment of the region to lastTouchedZone at
\* the triple that is accepted.
checkFaceTouchWithoutZone(faceLandmarks, handLandmarksList, settings, canvas) ==
  IF ~faceLandmarks.present \/ Len(handLandmarksList) = 0
  THEN [touch |-> FALSE, zone |-> "null"]
  ELSE LET triples == Triples(Len(handLandmarksList),
                              enabledZonesOf(settings.zones))
       IN [touch |-> \E k \in 1..Len(triples) :
                       Accepts(faceLandmarks, handLandmarksList, settings,
                               canvas, triples[k]),
           zone |-> "null"]

\* The value checkFaceTouch returns and the value it leaves in lastTouchedZone:
\* the loops return at the first triple that is accepted.
checkFaceTouch(faceLandmarks, handLandmarksList, settings, canvas) ==
  IF ~faceLandmarks.present \/ Len(handLandmarksList) = 0
  THEN [touch |-> FALSE, zone |-> "null"]
  ELSE LET enabledZones == enabledZonesOf(settings.zones)
       IN IF Len(enabledZones) = 0
          THEN [touch |-> FALSE, zone |-> "null"]
          ELSE LET triples == Triples(Len(handLandmarksList), enabledZones)
                   RECURSIVE Search(_)
                   Search(k) ==
                     IF k > Len(triples)
                     THEN [touch |-> FALSE, zone |-> "null"]
                     ELSE IF Accepts(faceLandmarks, handLandmarksList, settings,
                                     canvas, triples[k])
                     THEN [touch |-> TRUE, zone |-> triples[k].zone]
                     ELSE Search(k + 1)
               IN Search(1)

(***************************************************************************)
(* Posture classifier.  A pose coordinate n stands for n / PoseDen, a      *)
(* visibility v for v / 100, an angle for thousandths of a degree.         *)
(***************************************************************************)
PoseDen == 5 * 2

\* atan(a / b) in thousandths of a degree for 0 <= a <= b, b in 1..PoseDen:
\* AtanTable[b][a + 1].
AtanTable ==
  <<<<0, 45000>>,
    <<0, 26565, 45000>>,
    <<0, 18435, 33690, 45000>>,
    <<0, 14036, 26565, 36870, 45000>>,
    <<0, 11310, 21801, 30964, 38660, 45000>>,
    <<0, 9462, 18435, 26565, 33690, 39806, 45000>>,
    <<0, 8130, 15945, 23199, 29745, 35538, 40601, 45000>>,
    <<0, 7125, 14036, 20556, 26565, 32005, 36870, 41186, 45000>>,
    <<0, 6340, 12529, 18435, 23962, 29055, 33690, 37875, 41634, 45000>>,
    <<0, 5711, 11310, 16699, 21801, 26565, 30964, 34992, 38660, 41987, 45000>>>>

Abs(n) == IF n < 0 THEN 0 - n ELSE n

\* Math.atan2(y, x) * (180 / Math.PI), in thousandths of a degree.
Atan2(y, x) ==
  LET ay == Abs(y)
      ax == Abs(x)
      \* the angle of (ax, ay) in the first quadrant
      q == IF ax = 0 /\ ay = 0 THEN 0
           ELSE IF ay <= ax THEN AtanTable[ax][ay + 1]
           ELSE 90000 - AtanTable[ay][ax + 1]
  IN IF x >= 0 /\ y >= 0 THEN q
     ELSE IF x < 0 /\ y >= 0 THEN 180000 - q
     ELSE IF x < 0 /\ y < 0 THEN q - 180000
     ELSE 0 - q

calculateAngle(pointA, pointB, pointC) ==
  LET angle == Abs(Atan2(pointC.y - pointB.y, pointC.x - pointB.x)
                     - Atan2(pointA.y - pointB.y, pointA.x - pointB.x))
  IN IF angle > 180000 THEN 360000 - angle ELSE angle

\* value > threshold / (sensitivity / 100), value in thousandths of the
\* threshold's unit.  Dividing by a sensitivity of 0 gives Infinity (NaN for a
\* threshold of 0): the comparison is false.
ExceedsScaled(value, threshold, sensitivity) ==
  IF sensitivity = 0 THEN FALSE
  ELSE IF sensitivity > 0 THEN value * sensitivity > threshold * 100 * 1000
  ELSE value * sensitivity < threshold * 100 * 1000

Join(issues) ==
  LET RECURSIVE J(_)
      J(i) == IF i > Len(issues) THEN ""
              ELSE IF i = 1 THEN issues[1] \o J(2)
              ELSE ", " \o issues[i] \o J(i + 1)
  IN J(1)

\* At most 0.5 counts as visible too.
VisibleFromHalf(lm) == lm.visibility >= 50

Visible(lm) == lm.visibility > 50

\* The ear, shoulder and hip nearer to the lateral camera.
selectedEar(poseLandmarks) ==
  IF poseLandmarks.leftEar.visibility > poseLandmarks.rightEar.visibility
  THEN poseLandmarks.leftEar ELSE poseLandmarks.rightEar

selectedShoulder(poseLandmarks) ==
  IF poseLandmarks.leftShoulder.visibility > poseLandmarks.rightShoulder.visibility
  THEN poseLandmarks.leftShoulder ELSE poseLandmarks.rightShoulder

selectedHip(poseLandmarks) ==
  IF poseLandmarks.leftHip.visibility > poseLandmarks.rightHip.visibility
  THEN poseLandmarks.leftHip ELSE poseLandmarks.rightHip

\* 1. Head forward: the angle at the shoulder between the point above it and
\* the ear deviates from 90 degrees by more than the threshold.
headForwardCheck(poseLandmarks, posture) ==
  LET ear == selectedEar(poseLandmarks)
      shoulder == selectedShoulder(poseLandmarks)
      headForwardAngle ==
        calculateAngle([x |-> shoulder.x, y |-> shoulder.y - PoseDen \div 10],
                       shoulder, ear)
  IN /\ Visible(ear) /\ Visible(shoulder)
     /\ ExceedsScaled(Abs(90000 - headForwardAngle),
                      posture.headForwardThreshold, posture.sensitivity)

\* 2. Uneven shoulders: the line through the shoulders is off the horizontal
\* by more than the threshold.
shoulderSlouchCheck(poseLandmarks, posture) ==
  LET leftShoulder == poseLandmarks.leftShoulder
      rightShoulder == poseLandmarks.rightShoulder
      shoulderAngle ==
        Abs(Atan2(rightShoulder.y - leftShoulder.y, rightShoulder.x - leftShoulder.x))
  IN /\ Visible(leftShoulder) /\ Visible(rightShoulder)
     /\ ExceedsScaled(shoulderAngle, posture.shoulderSlouchThreshold,
                      posture.sensitivity)

\* 3. Spine curved: the angle ear-shoulder-hip deviates from 180 degrees by
\* more than the threshold.
spineCheck(poseLandmarks, posture) ==
  LET ear == selectedEar(poseLandmarks)
      shoulder == selectedShoulder(poseLandmarks)
      hip == selectedHip(poseLandmarks)
      spineAngle == calculateAngle(ear, shoulder, hip)
  IN /\ Visible(ear) /\ Visible(shoulder) /\ Visible(hip)
     /\ ExceedsScaled(Abs(180000 - spineAngle), posture.spineAngleThreshold,
                      posture.sensitivity)

\* 4. Shoulders hunched: shoulder.x - hip.x > 0.05 / sensitivity.
hunchCheck(poseLandmarks, posture) ==
  LET shoulder == selectedShoulder(poseLandmarks)
      hip == selectedHip(poseLandmarks)
  IN /\ Visible(shoulder) /\ Visible(hip)
     /\ ExceedsScaled(((shoulder.x - hip.x) * 1000 * 100) \div PoseDen, 5,
                      posture.sensitivity)

\* The issue list that stops at the first check that fires.
postureIssuesFirstOnly(poseLandmarks, posture) ==
  IF headForwardCheck(poseLandmarks, posture) THEN <<"Head forward">>
  ELSE IF shoulderSlouchCheck(poseLandmarks, posture) THEN <<"Uneven shoulders">>
  ELSE IF spineCheck(poseLandmarks, posture) THEN <<"Spine curved">>
  ELSE IF hunchCheck(poseLandmarks, posture) THEN <<"Shoulders hunched">>
  ELSE <<>>

\* The issue list checkPosture builds from a pose that is present.
postureIssues(poseLandmarks, posture) ==
  (IF headForwardCheck(poseLandmarks, posture) THEN <<"Head forward">> ELSE <<>>)
    \o (IF shoulderSlouchCheck(poseLandmarks, posture)
        THEN <<"Uneven shoulders">> ELSE <<>>)
    \o (IF spineCheck(poseLandmarks, posture) THEN <<"Spine curved">> ELSE <<>>)
    \o (IF hunchCheck(poseLandmarks, posture)
        THEN <<"Shoulders hunched">> ELSE <<>>)

\* checkPosture without the test of the posture-enabled setting.
checkPostureWhateverSetting(poseLandmarks, posture) ==
  IF ~poseLandmarks.present
  THEN [bad |-> FALSE, issue |-> "null"]
  ELSE LET issues == postureIssues(poseLandmarks, posture)
       IN IF Len(issues) > 0
          THEN [bad |-> TRUE, issue |-> Join(issues)]
          ELSE [bad |-> FALSE, issue |-> "null"]

\* The value checkPosture returns and the value it leaves in
\* currentPostureIssue.
checkPosture(poseLandmarks, posture) ==
  IF ~poseLandmarks.present \/ ~posture.enabled
  THEN [bad |-> FALSE, issue |-> "null"]
  ELSE LET issues == postureIssues(poseLandmarks, posture)
       IN IF Len(issues) > 0
          THEN [bad |-> TRUE, issue |-> Join(issues)]
          ELSE [bad |-> FALSE, issue |-> "null"]

(***************************************************************************)
(* Landmark samples: the inputs a frame can deliver.                       *)
(***************************************************************************)
Canvas == [width |-> IdealWidth, height |-> IdealHeight]

\* A landmark at pixel (px, py, pz) of the ideal 1280 x 720 capture.
AtPixel(px, py, pz) ==
  [x |-> px * (CoordDen \div IdealWidth),
   y |-> py * (CoordDen \div IdealHeight),
   z |-> pz * (CoordDen \div IdealWidth)]

\* Where the sample face has each zone.
ZoneAnchor ==
  [mouth |-> [x |-> 640, y |-> 500], nose |-> [x |-> 640, y |-> 400],
   leftEye |-> [x |-> 560, y |-> 300], rightEye |-> [x |-> 720, y |-> 300],
   leftCheek |-> [x |-> 500, y |-> 420], rightCheek |-> [x |-> 780, y |-> 420],
   chin |-> [x |-> 640, y |-> 600]]

ZoneOfIndex(idx) == CHOOSE z \in Zones : idx \in Range(RegionIndices(z))

PositionIn(seq, v) == CHOOSE i \in 1..Len(seq) : seq[i] = v

\* A face whose zone points lie in a row starting at the zone's anchor,
\* two pixels apart, at depth faceZ.
FaceAt(faceZ) ==
  [present |-> TRUE,
   lm |-> [idx \in FaceIdx |->
             LET z == ZoneOfIndex(idx)
                 k == PositionIn(RegionIndices(z), idx)
             IN AtPixel(ZoneAnchor[z].x + 2 * (k - 1), ZoneAnchor[z].y, faceZ)]]

NoFace == [present |-> FALSE, lm |-> [idx \in FaceIdx |-> AtPixel(0, 0, 0)]]

\* A hand whose fingertip number finger is at pixel (px, py, pz); the other
\* landmarks are at the corner of the frame.
HandWithTip(finger, px, py, pz) ==
  [i \in HandIdx |->
     IF i = FINGERTIPS[finger] THEN AtPixel(px, py, pz) ELSE AtPixel(0, 0, 0)]

\* A hand with its thumb tip at one pixel and its index fingertip at another.
HandWithThumbAndIndex(thumb, index) ==
  [i \in HandIdx |->
     IF i = FINGERTIPS[1] THEN AtPixel(thumb.x, thumb.y, 0)
     ELSE IF i = FINGERTIPS[2] THEN AtPixel(index.x, index.y, 0)
     ELSE AtPixel(0, 0, 0)]

Lm(x, y, visibility) == [x |-> x, y |-> y, visibility |-> visibility]

Pose(ear, shoulder, hip, otherVisibility) ==
  [present |-> TRUE,
   leftEar |-> ear, rightEar |-> Lm(ear.x, ear.y, otherVisibility),
   leftShoulder |-> shoulder,
   rightShoulder |-> Lm(shoulder.x, shoulder.y, otherVisibility),
   leftHip |-> hip, rightHip |-> Lm(hip.x, hip.y, otherVisibility)]

NoPose == [present |-> FALSE,
           leftEar |-> Lm(0, 0, 0), rightEar |-> Lm(0, 0, 0),
           leftShoulder |-> Lm(0, 0, 0), rightShoulder |-> Lm(0, 0, 0),
           leftHip |-> Lm(0, 0, 0), rightHip |-> Lm(0, 0, 0)]

\* Ear left of the shoulder and hip right of it, on one line: no check fires.
LevelPose == Pose(Lm(2, 5, 90), Lm(5, 5, 90), Lm(8, 5, 90), 20)

\* Ear far in front of the upright trunk: three checks fire.
SlumpedPose == Pose(Lm(8, 2, 90), Lm(5, 5, 90), Lm(4, 9, 90), 20)

\* What the landmarkers return for one frame of the monitor.
FrameInputs ==
  { [face |-> NoFace, hands |-> <<HandWithTip(2, 640, 500, 0)>>],
    [face |-> FaceAt(0), hands |-> <<>>],
    [face |-> FaceAt(0), hands |-> <<HandWithTip(2, 640, 500, 0)>>] }

PoseInputs == {NoPose, LevelPose, SlumpedPose}

(***************************************************************************)
(* The monitor.                                                            *)
(*                                                                         *)
(* state     the fields of the state object the callbacks read and write   *)
(* timers    the interval timers that are live (setInterval, not cleared)  *)
(* media     the lateral video element and the getUserMedia requests and   *)
(*           startMonitoring call that are suspended at an await           *)
(* now       the clock, in milliseconds                                    *)
(* out       the alerts the last callback emitted, in order; empty again   *)
(*           when the clock moves on                                       *)
(* obs       what an observer of the frames and the alerts has seen        *)
(* call      the arguments and the result of the last call of              *)
(*           checkFaceTouch made on its own since the settings it reads    *)
(*           last changed (SpecTouch)                                      *)
(* ui        the statistics the page shows: the text of the touch rate     *)
(*           element, in tenths                                            *)
(***************************************************************************)
VARIABLES state, timers, media, now, out, obs, call, ui

vars == <<state, timers, media, now, out, obs, call, ui>>

Behaviours == {"touch", "posture"}

DefaultZones ==
  [mouth |-> TRUE, nose |-> TRUE, leftEye |-> TRUE, rightEye |-> TRUE,
   leftCheek |-> FALSE, rightCheek |-> FALSE, chin |-> FALSE]

DefaultSettings ==
  [sensitivity |-> DefaultSensitivity,
   alertCooldownMs |-> DefaultAlertCooldownMs,
   zones |-> DefaultZones,
   posture |-> [enabled |-> FALSE,
                lateralCameraId |-> "null",
                sensitivity |-> DefaultSensitivity,
                headForwardThreshold |-> 15,
                shoulderSlouchThreshold |-> 10,
                spineAngleThreshold |-> 15,
                alertCooldownMs |-> DefaultPostureCooldownMs]]

InitialState ==
  [isRunning |-> FALSE,
   animationId |-> NoTimer,
   lateralVideo |-> FALSE,
   lateralStream |-> FALSE,
   touchCount |-> 0,
   lastTouchTime |-> NoTime,
   postureAlertCount |-> 0,
   lastPostureAlertTime |-> NoTime,
   startTime |-> NoTime,
   isTouching |-> FALSE,
   wasTouching |-> FALSE,
   continuousBeepTimer |-> NoTimer,
   isBadPosture |-> FALSE,
   wasBadPosture |-> FALSE,
   postureBeepTimer |-> NoTimer,
   currentPostureIssue |-> "null",
   settings |-> DefaultSettings,
   lastTouchedZone |-> "null"]

\* What the observer keeps of a behaviour.  An episode opens at a rising edge
\* of the frames' classification (phase "open") and ends at the next frame
\* classified false (phase "fallen"); a stop or a disable forgets it (phase
\* "none").  onsets and cont count the onset and the continuous alerts since
\* the episode opened, interval is the cooldown at the rising edge, ticked
\* says that a timer callback of the behaviour ran while the episode was open.
\* since counts the alerts of the open episode emitted since the cooldown
\* setting of the behaviour was last written, lastAt is the time of the last
\* of the episode's alerts.
NoEpisode ==
  [phase |-> "none", onsetAt |-> 0, interval |-> 0, onsets |-> 0, cont |-> 0,
   ticked |-> FALSE, since |-> 0, lastAt |-> NoTime]

InitialObs ==
  [prevFrame |-> [b \in Behaviours |-> "none"],
   onsets |-> [b \in Behaviours |-> 0],
   lastOnsetAt |-> [b \in Behaviours |-> NoTime],
   episode |-> [b \in Behaviours |-> NoEpisode]]

NoCall == [made |-> FALSE]

InitialMedia ==
  [srcObject |-> "null", onloadedmetadata |-> "none", pending |-> <<>>,
   starting |-> "no"]

\* The world a callback runs in: it reads now and changes the rest.
\* The text the page shows for the touch rate before updateUI or
\* resetStatistics writes it, taken to be the '0.0' resetStatistics puts there.
InitialUi == [touchRate |-> 0]

World ==
  [state |-> state, timers |-> timers, media |-> media, now |-> now,
   out |-> <<>>, obs |-> obs, call |-> call, ui |-> ui]

\* F(e), with e evaluated once: the statements of a callback run one after
\* the other, each on the world the one before it left.
Then(e, F(_)) == CHOOSE r \in {F(x) : x \in {e}} : TRUE

Commit(w) ==
  /\ state' = w.state
  /\ timers' = w.timers
  /\ media' = w.media
  /\ out' = w.out
  /\ obs' = w.obs
  /\ call' = w.call
  /\ ui' = w.ui

(***************************************************************************)
(* The alert sinks (playBeep, the flash, sendNotification), as one event   *)
(* per alert, and what the observer records of it.                         *)
(***************************************************************************)
BehaviourOf(kind) ==
  IF kind \in {"touchOnset", "touchContinuous"} THEN "touch" ELSE "posture"

IsOnset(kind) == kind \in {"touchOnset", "postureOnset"}

Emit(w, kind, what) ==
  LET b == BehaviourOf(kind)
      w1 == [w EXCEPT !.out = Append(@, [kind |-> kind, what |-> what])]
  IN IF IsOnset(kind)
     THEN [w1 EXCEPT !.obs.onsets[b] = @ + 1,
                     !.obs.lastOnsetAt[b] = w.now,
                     !.obs.episode[b].onsets = @ + 1,
                     !.obs.episode[b].since = @ + 1,
                     !.obs.episode[b].lastAt = w.now]
     ELSE [w1 EXCEPT !.obs.episode[b].cont = @ + 1,
                     !.obs.episode[b].since = @ + 1,
                     !.obs.episode[b].lastAt = w.now]

\* The observer sees a frame of behaviour b classified as detected, before
\* the frame is handled.  A frame classified true is a rising edge unless the
\* frame before it was classified true too; a frame classified false after
\* one classified true is a falling edge.
ObserveFrame(w, b, detected) ==
  LET rising == detected /\ w.obs.prevFrame[b] # "true"
      falling == ~detected /\ w.obs.prevFrame[b] = "true"
      cooldown == IF b = "touch" THEN w.state.settings.alertCooldownMs
                  ELSE w.state.settings.posture.alertCooldownMs
  IN [w EXCEPT !.obs.prevFrame[b] = IF detected THEN "true" ELSE "false",
               !.obs.episode[b] =
                  IF rising
                  THEN [phase |-> "open", onsetAt |-> w.now, interval |-> cooldown,
                        onsets |-> 0, cont |-> 0, ticked |-> FALSE,
                        since |-> 0, lastAt |-> NoTime]
                  ELSE IF falling
                  THEN [@ EXCEPT !.phase = "fallen", !.onsetAt = 0, !.interval = 0,
                                 !.since = 0, !.lastAt = NoTime]
                  ELSE @]

\* The observer sees the cooldown setting of behaviour b written.
ObserveSetting(w, b) == [w EXCEPT !.obs.episode[b].since = 0]

\* The observer sees behaviour b end without a frame (a stop, a disable): the
\* next frame it sees of b is a first frame.
ObserveEnd(w, b) ==
  [w EXCEPT !.obs.prevFrame[b] = "none", !.obs.episode[b] = NoEpisode]

\* The observer sees a timer callback of behaviour b start.
ObserveTick(w, b) ==
  [w EXCEPT !.obs.episode[b].ticked = @ \/ w.obs.episode[b].phase = "open"]

(***************************************************************************)
(* setInterval and clearInterval.                                          *)
(***************************************************************************)
NewHandle(live) ==
  CHOOSE h \in 1..(Cardinality(live) + 1) : \A t \in live : t.id # h

setInterval(w, owner, interval) ==
  Then(NewHandle(w.timers), LAMBDA id :
    [handle |-> id,
     world |-> [w EXCEPT !.timers = @ \cup {[id |-> id, owner |-> owner,
                                             interval |-> interval,
                                             due |-> w.now + interval]}]])

\* A clearInterval that clears every timer.
clearIntervalAll(w, handle) == [w EXCEPT !.timers = {}]

clearInterval(w, handle) ==
  [w EXCEPT !.timers = {t \in @ : t.id # handle}]

(***************************************************************************)
(* Touch alert handling.                                                   *)
(***************************************************************************)
getZoneDisplayName(zone) ==
  CASE zone = "mouth" -> "Mouth"
    [] zone = "nose" -> "Nose"
    [] zone = "leftEye" -> "Left Eye"
    [] zone = "rightEye" -> "Right Eye"
    [] zone = "leftCheek" -> "Left Cheek"
    [] zone = "rightCheek" -> "Right Cheek"
    [] zone = "chin" -> "Chin"
    [] OTHER -> zone

zoneNameOf(s) ==
  IF s.lastTouchedZone # "null" THEN getZoneDisplayName(s.lastTouchedZone)
  ELSE "Face"

triggerAlert(w) ==
  Emit([w EXCEPT !.state.touchCount = @ + 1,
                 !.state.lastTouchTime = w.now],
       "touchOnset", zoneNameOf(w.state))

\* A continuous alert that counts as a touch.
triggerContinuousAlertCounts(w) ==
  Emit([w EXCEPT !.state.touchCount = @ + 1], "touchContinuous",
       zoneNameOf(w.state))

triggerContinuousAlert(w) == Emit(w, "touchContinuous", zoneNameOf(w.state))

\* A stopContinuousBeep that forgets the handle without clearing the timer.
stopContinuousBeepForgets(w) == [w EXCEPT !.state.continuousBeepTimer = NoTimer]

stopContinuousBeep(w) ==
  IF w.state.continuousBeepTimer # NoTimer
  THEN [clearInterval(w, w.state.continuousBeepTimer)
          EXCEPT !.state.continuousBeepTimer = NoTimer]
  ELSE w

startContinuousBeep(w) ==
  Then(stopContinuousBeep(w), LAMBDA w1 :
  Then(setInterval(w1, "touch", w1.state.settings.alertCooldownMs), LAMBDA r :
    [r.world EXCEPT !.state.continuousBeepTimer = r.handle]))

\* handleTouchState without its falling-edge branch: the timer is left to
\* its own check.
handleTouchStateKeepsTimer(w, touchDetected) ==
  Then([w EXCEPT !.state.wasTouching = w.state.isTouching,
                 !.state.isTouching = touchDetected], LAMBDA w1 :
    IF touchDetected /\ ~w1.state.wasTouching
    THEN Then(triggerAlert(w1), startContinuousBeep)
    ELSE w1)

handleTouchState(w, touchDetected) ==
  Then([w EXCEPT !.state.wasTouching = w.state.isTouching,
                 !.state.isTouching = touchDetected], LAMBDA w1 :
    IF touchDetected /\ ~w1.state.wasTouching
    THEN Then(triggerAlert(w1), startContinuousBeep)
    ELSE IF ~touchDetected /\ w1.state.wasTouching
    THEN stopContinuousBeep(w1)
    ELSE w1)

\* A timer callback that does not look at isTouching.
continuousBeepTickAlways(w) == triggerContinuousAlert(w)

\* The callback startContinuousBeep hands to setInterval.
continuousBeepTick(w) ==
  IF w.state.isTouching THEN triggerContinuousAlert(w) ELSE stopContinuousBeep(w)

(***************************************************************************)
(* Posture alert handling.                                                 *)
(***************************************************************************)
issueOf(s) ==
  IF s.currentPostureIssue # "null" THEN s.currentPostureIssue ELSE "Poor posture"

triggerPostureAlert(w) ==
  Emit([w EXCEPT !.state.postureAlertCount = @ + 1,
                 !.state.lastPostureAlertTime = w.now],
       "postureOnset", issueOf(w.state))

triggerPostureContinuousAlert(w) == Emit(w, "postureContinuous", issueOf(w.state))

stopPostureContinuousAlert(w) ==
  IF w.state.postureBeepTimer # NoTimer
  THEN [clearInterval(w, w.state.postureBeepTimer)
          EXCEPT !.state.postureBeepTimer = NoTimer]
  ELSE w

startPostureContinuousAlert(w) ==
  Then(stopPostureContinuousAlert(w), LAMBDA w1 :
  Then(setInterval(w1, "posture", w1.state.settings.posture.alertCooldownMs),
       LAMBDA r : [r.world EXCEPT !.state.postureBeepTimer = r.handle]))

handlePostureState(w, badPostureDetected) ==
  Then([w EXCEPT !.state.wasBadPosture = w.state.isBadPosture,
                 !.state.isBadPosture = badPostureDetected], LAMBDA w1 :
    IF badPostureDetected /\ ~w1.state.wasBadPosture
    THEN Then(triggerPostureAlert(w1), startPostureContinuousAlert)
    ELSE IF ~badPostureDetected /\ w1.state.wasBadPosture
    THEN stopPostureContinuousAlert(w1)
    ELSE w1)

\* The callback startPostureContinuousAlert hands to setInterval.
postureBeepTick(w) ==
  IF w.state.isBadPosture THEN triggerPostureContinuousAlert(w)
  ELSE stopPostureContinuousAlert(w)

(***************************************************************************)
(* The lateral camera.  initializeLateralCamera suspends at getUserMedia   *)
(* and then at the loadedmetadata event of the lateral video element; who  *)
(* called it (the handler of a control, or startMonitoring) is what        *)
(* resumes afterwards.  media.onloadedmetadata is the caller that waits    *)
(* for the event of the stream being loaded: detaching the stream ends the *)
(* load, and the event never comes.                                        *)
(***************************************************************************)
Callers == {"control", "start"}

stopLateralCamera(w) ==
  [w EXCEPT !.state.lateralStream = FALSE,
            !.state.lateralVideo = FALSE,
            !.media.srcObject = "null",
            !.media.onloadedmetadata = "none"]

\* initializeLateralCamera up to its first await.
initializeLateralCamera(w, deviceId, caller) ==
  IF deviceId = "null" THEN stopLateralCamera(w)
  ELSE [stopLateralCamera(w) EXCEPT !.media.pending = Append(@, caller)]

(***************************************************************************)
(* The frame loop.                                                         *)
(***************************************************************************)
detectPostureFrame(w, poseResults) ==
  IF ~w.state.isRunning \/ ~w.state.settings.posture.enabled
       \/ ~w.state.lateralVideo
  THEN NoPose
  ELSE poseResults

\* The posture part of detectFrame.
detectPosture(w, poseResults) ==
  Then(checkPosture(detectPostureFrame(w, poseResults), w.state.settings.posture),
       LAMBDA posture :
  Then(ObserveFrame([w EXCEPT !.state.currentPostureIssue = posture.issue],
                    "posture", posture.bad),
       LAMBDA w1 : handlePostureState(w1, posture.bad)))

MsPerHour == 1000 * 60 * 60

\* rate.toFixed(1) for rate = touchCount / (elapsedMs / MsPerHour), in tenths:
\* the nearest tenth, the larger of two that are equally near.
toFixed1(touchCount, elapsedMs) ==
  (2 * 10 * touchCount * MsPerHour + elapsedMs) \div (2 * elapsedMs)

\* updateUI: the touch rate is written only when some time has elapsed since
\* the start of the session.
updateUI(w) ==
  IF w.state.startTime # NoTime /\ w.now - w.state.startTime > 0
  THEN [w EXCEPT !.ui.touchRate =
                    toFixed1(w.state.touchCount, w.now - w.state.startTime)]
  ELSE w

detectFrame(w, frame, poseResults) ==
  IF ~w.state.isRunning THEN w
  ELSE
    Then(checkFaceTouch(frame.face, frame.hands, w.state.settings, Canvas),
         LAMBDA touch :
    Then(ObserveFrame([w EXCEPT !.state.lastTouchedZone = touch.zone],
                      "touch", touch.touch),
         LAMBDA w1 :
    Then(handleTouchState(w1, touch.touch), LAMBDA w2 :
    Then(IF w2.state.settings.posture.enabled /\ w2.state.lateralVideo
         THEN detectPosture(w2, poseResults)
         ELSE w2,
         LAMBDA w3 : [updateUI(w3) EXCEPT !.state.animationId = 1]))))

\* The pose landmarker runs only on a frame that reaches detectPostureFrame
\* with a lateral video.
PoseInputsFor(s) ==
  IF s.settings.posture.enabled /\ s.lateralVideo THEN PoseInputs ELSE {NoPose}

WithinCounts(w) ==
  /\ w.state.touchCount <= MaxCount
  /\ w.state.postureAlertCount <= MaxCount

\* requestAnimationFrame runs the callback it was given.
DetectFrame ==
  /\ state.animationId # NoTimer
  /\ \E frame \in FrameInputs, poseResults \in PoseInputsFor(state) :
       \E w \in {detectFrame(World, frame, poseResults)} :
         WithinCounts(w) /\ Commit(w)
  /\ UNCHANGED now

(***************************************************************************)
(* Time and the interval timers.  A timer that is due fires before the     *)
(* clock moves on; callbacks that are due at the same instant run in any   *)
(* order.                                                                  *)
(***************************************************************************)
Tick ==
  /\ now + MsPerSecond <= MaxSeconds * MsPerSecond
  /\ \A t \in timers : t.due > now
  /\ now' = now + MsPerSecond
  /\ out' = <<>>
  /\ UNCHANGED <<state, timers, media, obs, call, ui>>

\* The timer t fires: its callback runs, and the timer is due again one
\* interval later unless the callback cleared it.
fire(w, t) ==
  Then(ObserveTick(w, t.owner), LAMBDA w0 :
  Then(IF t.owner = "touch" THEN continuousBeepTick(w0) ELSE postureBeepTick(w0),
       LAMBDA w1 :
    [w1 EXCEPT !.timers = {IF u.id = t.id THEN [u EXCEPT !.due = @ + u.interval]
                           ELSE u : u \in @}]))

TimerFires ==
  /\ \E t \in timers : t.due <= now /\ \E w \in {fire(World, t)} : Commit(w)
  /\ UNCHANGED now

(***************************************************************************)
(* Start, stop and reset.                                                  *)
(***************************************************************************)
\* The last, synchronous part of startMonitoring, its detectFrame() included.
startMonitoringFinish(w, frame, poseResults) ==
  Then([w EXCEPT !.state.isRunning = TRUE,
                 !.state.startTime = w.now,
                 !.state.touchCount = 0,
                 !.state.lastTouchTime = NoTime,
                 !.state.postureAlertCount = 0,
                 !.state.lastPostureAlertTime = NoTime,
                 !.media.starting = "no",
                 !.obs.prevFrame = [b \in Behaviours |-> "none"],
                 !.obs.onsets = [b \in Behaviours |-> 0],
                 !.obs.lastOnsetAt = [b \in Behaviours |-> NoTime]],
       LAMBDA w1 : detectFrame(w1, frame, poseResults))

\* initializeLateralCamera returns to its caller in the world w: startMonitoring
\* goes on to its last part, the handlers of the controls have nothing left
\* that changes the state.
Resume(w, caller) ==
  IF caller = "start"
  THEN \E frame \in FrameInputs, poseResults \in PoseInputsFor(w.state) :
         \E w1 \in {startMonitoringFinish(w, frame, poseResults)} :
           WithinCounts(w1) /\ Commit(w1)
  ELSE Commit(w)

\* startMonitoring from the point where the models and the front camera are
\* ready: it initialises the lateral camera and waits for it, or finishes.
StartMonitoring ==
  /\ ~state.isRunning
  /\ media.starting = "no"
  /\ LET p == state.settings.posture
     IN IF p.enabled /\ p.lateralCameraId # "null"
        THEN \E w \in {initializeLateralCamera(World, p.lateralCameraId, "start")} :
               /\ Len(w.media.pending) <= MaxPending
               /\ Commit([w EXCEPT !.media.starting = "await"])
        ELSE \E w \in {World} : Resume(w, "start")
  /\ UNCHANGED now

\* A stopMonitoring that leaves the touch timer alone.
stopMonitoringKeepsTouchTimer(w) ==
  Then([w EXCEPT !.state.isRunning = FALSE, !.state.animationId = NoTimer],
       LAMBDA w1 :
  Then(stopPostureContinuousAlert(w1), LAMBDA w3 :
  Then([stopLateralCamera(w3) EXCEPT !.state.isBadPosture = FALSE,
                                     !.state.wasBadPosture = FALSE],
       LAMBDA w4 :
  Then(ObserveEnd(w4, "touch"), LAMBDA w5 : ObserveEnd(w5, "posture")))))

\* A stopMonitoring that leaves the posture timer alone.
stopMonitoringKeepsPostureTimer(w) ==
  Then([w EXCEPT !.state.isRunning = FALSE, !.state.animationId = NoTimer],
       LAMBDA w1 :
  Then(stopContinuousBeep(w1), LAMBDA w2 :
  Then([stopLateralCamera(w2) EXCEPT !.state.isBadPosture = FALSE,
                                     !.state.wasBadPosture = FALSE],
       LAMBDA w4 :
  Then(ObserveEnd(w4, "touch"), LAMBDA w5 : ObserveEnd(w5, "posture")))))

stopMonitoring(w) ==
  Then([w EXCEPT !.state.isRunning = FALSE, !.state.animationId = NoTimer],
       LAMBDA w1 :
  Then(stopContinuousBeep(w1), LAMBDA w2 :
  Then(stopPostureContinuousAlert(w2), LAMBDA w3 :
  Then([stopLateralCamera(w3) EXCEPT !.state.isBadPosture = FALSE,
                                     !.state.wasBadPosture = FALSE],
       LAMBDA w4 :
  Then(ObserveEnd(w4, "touch"), LAMBDA w5 : ObserveEnd(w5, "posture"))))))

StopMonitoring ==
  /\ state.isRunning
  /\ \E w \in {stopMonitoring(World)} : Commit(w)
  /\ UNCHANGED now

resetStatistics(w) ==
  [w EXCEPT !.state.touchCount = 0,
            !.state.lastTouchTime = NoTime,
            !.state.postureAlertCount = 0,
            !.state.lastPostureAlertTime = NoTime,
            !.state.startTime = w.now,
            !.ui.touchRate = 0,
            !.obs.onsets = [b \in Behaviours |-> 0],
            !.obs.lastOnsetAt = [b \in Behaviours |-> NoTime]]

ResetStatistics ==
  /\ \E w \in {resetStatistics(World)} : Commit(w)
  /\ UNCHANGED now

RemoveAt(seq, i) == SubSeq(seq, 1, i - 1) \o SubSeq(seq, i + 1, Len(seq))

\* getUserMedia resolves for one caller: the stream is stored and attached,
\* and the caller's loadedmetadata handler replaces the one installed.
GetUserMediaResolves ==
  /\ \E i \in DOMAIN media.pending :
       \E w \in {[World EXCEPT !.state.lateralStream = TRUE,
                               !.media.srcObject = "loading",
                               !.media.onloadedmetadata = media.pending[i],
                               !.media.pending = RemoveAt(@, i)]} : Commit(w)
  /\ UNCHANGED now

\* getUserMedia rejects: initializeLateralCamera returns false to its caller.
GetUserMediaRejects ==
  /\ \E i \in DOMAIN media.pending :
       \E w \in {[World EXCEPT !.media.pending = RemoveAt(@, i)]} :
         Resume(w, media.pending[i])
  /\ UNCHANGED now

\* The lateral video element has loaded the attached stream's metadata.
LoadedMetadata ==
  /\ media.srcObject = "loading"
  /\ \E w \in {[World EXCEPT !.state.lateralVideo = TRUE,
                               !.media.srcObject = "loaded",
                               !.media.onloadedmetadata = "none"]} :
       Resume(w, media.onloadedmetadata)
  /\ UNCHANGED now

(***************************************************************************)
(* The controls.                                                           *)
(***************************************************************************)
\* The posture toggle's handler without stopPostureContinuousAlert().
postureToggleChangeKeepsTimer(w, checked) ==
  Then([w EXCEPT !.state.settings.posture.enabled = checked], LAMBDA w1 :
    IF checked
    THEN IF w1.state.settings.posture.lateralCameraId # "null"
         THEN initializeLateralCamera(w1, w1.state.settings.posture.lateralCameraId,
                                      "control")
         ELSE w1
    ELSE Then(stopLateralCamera(w1), LAMBDA w2 :
         Then([w2 EXCEPT !.state.isBadPosture = FALSE,
                         !.state.wasBadPosture = FALSE],
              LAMBDA w4 : ObserveEnd(w4, "posture"))))

\* The change handler of the posture toggle.
postureToggleChange(w, checked) ==
  Then([w EXCEPT !.state.settings.posture.enabled = checked], LAMBDA w1 :
    IF checked
    THEN IF w1.state.settings.posture.lateralCameraId # "null"
         THEN initializeLateralCamera(w1, w1.state.settings.posture.lateralCameraId,
                                      "control")
         ELSE w1
    ELSE Then(stopLateralCamera(w1), LAMBDA w2 :
         Then(stopPostureContinuousAlert(w2), LAMBDA w3 :
         Then([w3 EXCEPT !.state.isBadPosture = FALSE,
                         !.state.wasBadPosture = FALSE],
              LAMBDA w4 : ObserveEnd(w4, "posture")))))

PostureToggle ==
  /\ \E w \in {postureToggleChange(World, ~state.settings.posture.enabled)} :
       Len(w.media.pending) <= MaxPending /\ Commit(w)
  /\ UNCHANGED now

CameraIds == {"null", "cam"}

\* The change handler of the lateral camera select.
lateralCameraSelectChange(w, deviceId) ==
  Then([w EXCEPT !.state.settings.posture.lateralCameraId = deviceId], LAMBDA w1 :
    IF deviceId # "null" /\ w1.state.settings.posture.enabled
    THEN initializeLateralCamera(w1, deviceId, "control")
    ELSE stopLateralCamera(w1))

LateralCameraSelect ==
  /\ \E deviceId \in CameraIds \ {state.settings.posture.lateralCameraId} :
       \E w \in {lateralCameraSelectChange(World, deviceId)} :
         Len(w.media.pending) <= MaxPending /\ Commit(w)
  /\ UNCHANGED now

\* The positions of the cooldown sliders, in seconds.
CooldownSeconds == {1, 2}
PostureCooldownSeconds == {2, 3}

alertCooldownInput(w, value) ==
  ObserveSetting([w EXCEPT !.state.settings.alertCooldownMs = value * MsPerSecond],
                 "touch")

AlertCooldownInput ==
  /\ \E value \in CooldownSeconds :
       /\ value * MsPerSecond # state.settings.alertCooldownMs
       /\ \E w \in {alertCooldownInput(World, value)} : Commit(w)
  /\ UNCHANGED now

postureCooldownInput(w, value) ==
  ObserveSetting(
    [w EXCEPT !.state.settings.posture.alertCooldownMs = value * MsPerSecond],
    "posture")

PostureCooldownInput ==
  /\ \E value \in PostureCooldownSeconds :
       /\ value * MsPerSecond # state.settings.posture.alertCooldownMs
       /\ \E w \in {postureCooldownInput(World, value)} : Commit(w)
  /\ UNCHANGED now

(***************************************************************************)
(* The monitor's specification.                                            *)
(***************************************************************************)
\* What saveSettings left in localStorage on an earlier visit: nothing, or
\* the settings of a user who turned the posture monitor on, chose a lateral
\* camera and moved both cooldown sliders to one second.
NothingSaved == [saved |-> FALSE, settings |-> DefaultSettings]

PostureSaved ==
  [saved |-> TRUE,
   settings |-> [DefaultSettings EXCEPT
                   !.alertCooldownMs = MsPerSecond,
                   !.posture.enabled = TRUE,
                   !.posture.lateralCameraId = "cam",
                   !.posture.alertCooldownMs = MsPerSecond]]

SavedSettings == {NothingSaved, PostureSaved}

\* loadSettings: the saved settings over the defaults.
loadSettings(s, item) ==
  IF item.saved THEN [s EXCEPT !.settings = item.settings] ELSE s

Init ==
  /\ \E item \in SavedSettings : state = loadSettings(InitialState, item)
  /\ timers = {}
  /\ media = InitialMedia
  /\ now = 0
  /\ out = <<>>
  /\ obs = InitialObs
  /\ call = NoCall
  /\ ui = InitialUi

\* The monitor as its user starts, stops and resets it and turns the posture
\* monitor on and off, with the settings as they were loaded.
Next ==
  \/ StartMonitoring
  \/ StopMonitoring
  \/ ResetStatistics
  \/ DetectFrame
  \/ TimerFires
  \/ Tick
  \/ GetUserMediaResolves
  \/ GetUserMediaRejects
  \/ LoadedMetadata
  \/ PostureToggle

Spec == Init /\ [][Next]_vars

(***************************************************************************)
(* The touch classifier on its own: checkFaceTouch called on the landmarks *)
(* of one frame, between changes of the zone toggles and of the            *)
(* sensitivity slider.                                                     *)
(***************************************************************************)
\* The zones a toggle of the page sets: the eyes and the cheeks are toggled
\* in pairs.
ZonesOfControl(control) ==
  CASE control = "eyes" -> {"leftEye", "rightEye"}
    [] control = "cheeks" -> {"leftCheek", "rightCheek"}
    [] OTHER -> {control}

\* The change handler of a zone toggle.
zoneToggleChange(w, control, checked) ==
  [w EXCEPT !.state.settings.zones =
              [z \in Zones |-> IF z \in ZonesOfControl(control) THEN checked
                               ELSE w.state.settings.zones[z]],
            !.call = NoCall]

\* The zone toggles of the page.
ZoneControls == {"mouth", "nose", "eyes", "cheeks", "chin"}

ZoneToggle ==
  /\ \E control \in ZoneControls, checked \in BOOLEAN :
       /\ \E z \in ZonesOfControl(control) : state.settings.zones[z] # checked
       /\ \E w \in {zoneToggleChange(World, control, checked)} : Commit(w)
  /\ UNCHANGED now

\* The input handler of the sensitivity slider.
sensitivityInput(w, value) ==
  [w EXCEPT !.state.settings.sensitivity = value, !.call = NoCall]

SensitivityValues == {50, 100, 200}

SensitivityInput ==
  /\ \E value \in SensitivityValues \ {state.settings.sensitivity} :
       \E w \in {sensitivityInput(World, value)} : Commit(w)
  /\ UNCHANGED now

\* The hands a frame can show: none; one with the index fingertip on the
\* mouth, on the chin or away from the face; one with the thumb tip on the
\* nose; two of which the second has the index fingertip on the mouth, the
\* first away from the face or 30 pixels below the nose; one with the thumb
\* tip 20 pixels above the chin and the index fingertip on the mouth; one
\* with the index fingertip 40 pixels below the nose and 60 above the mouth.
HandInputs ==
  { <<>>,
    <<HandWithTip(2, 640, 500, 0)>>,
    <<HandWithTip(2, 640, 600, 0)>>,
    <<HandWithTip(2, 100, 100, 0)>>,
    <<HandWithTip(1, 640, 410, 0)>>,
    <<HandWithTip(2, 100, 100, 0), HandWithTip(2, 640, 500, 0)>>,
    <<HandWithTip(2, 640, 430, 0), HandWithTip(2, 640, 500, 0)>>,
    <<HandWithThumbAndIndex([x |-> 640, y |-> 580], [x |-> 640, y |-> 500])>>,
    <<HandWithTip(2, 640, 440, 0)>> }

FaceInputs == {NoFace, FaceAt(0)}

\* checkFaceTouch is called on the landmarks of a frame.
CheckFaceTouch ==
  /\ \E faceLandmarks \in FaceInputs, handLandmarksList \in HandInputs :
       \E touch \in {checkFaceTouch(faceLandmarks, handLandmarksList,
                                    state.settings, Canvas)} :
         Commit([World EXCEPT
                   !.state.lastTouchedZone = touch.zone,
                   !.call = [made |-> TRUE,
                             faceLandmarks |-> faceLandmarks,
                             handLandmarksList |-> handLandmarksList,
                             before |-> state.lastTouchedZone,
                             result |-> touch.touch]])
  /\ UNCHANGED now

NextTouch ==
  \/ CheckFaceTouch
  \/ ZoneToggle
  \/ SensitivityInput

SpecTouch == Init /\ [][NextTouch]_vars

(***************************************************************************)
(* SpecCooldown: the monitor running while its user moves the two cooldown *)
(* sliders.                                                                *)
(***************************************************************************)
NextCooldown ==
  \/ StartMonitoring
  \/ DetectFrame
  \/ TimerFires
  \/ Tick
  \/ GetUserMediaResolves
  \/ LoadedMetadata
  \/ AlertCooldownInput
  \/ PostureCooldownInput

SpecCooldown == Init /\ [][NextCooldown]_vars

(***************************************************************************)
(* SpecDistance: checkFaceTouch on fingertips at measured distances from   *)
(* the mouth, on canvases of two sizes, between moves of the sensitivity   *)
(* slider.  The zones are the default ones.                                *)
(***************************************************************************)
\* The sizes the canvas gets from the video in initializeCamera: the ideal one
\* and one of half its width and height.
Canvases ==
  {Canvas, [width |-> IdealWidth \div 2, height |-> IdealHeight \div 2]}

\* A landmark at pixel (px, py, pz) of a canvas.
AtPixelOn(canvas, px, py, pz) ==
  [x |-> px * (CoordDen \div canvas.width),
   y |-> py * (CoordDen \div canvas.height),
   z |-> pz * (CoordDen \div canvas.width)]

\* How much deeper each point of a zone of the tilted face is than the one
\* before it, in pixels.
TiltStep == 2 * 10

\* A face on a canvas: the points of each zone lie in a row that starts at
\* half the zone's anchor, two pixels apart, the first at depth faceZ and
\* each TiltStep deeper than the one before.
TiltedFaceOn(canvas, faceZ) ==
  [present |-> TRUE,
   lm |-> [idx \in FaceIdx |->
             LET z == ZoneOfIndex(idx)
                 k == PositionIn(RegionIndices(z), idx)
             IN AtPixelOn(canvas, ZoneAnchor[z].x \div 2 + 2 * (k - 1),
                          ZoneAnchor[z].y \div 2, faceZ + TiltStep * (k - 1))]]

\* The mean depth of the points of a zone of TiltedFaceOn(canvas, faceZ).
MeanZoneZ(zone, faceZ) ==
  faceZ + (TiltStep * (Len(RegionIndices(zone)) - 1)) \div 2

\* A hand whose fingertip number finger is at pixel (px, py, pz) of a canvas.
HandWithTipOn(canvas, finger, px, py, pz) ==
  [i \in HandIdx |->
     IF i = FINGERTIPS[finger] THEN AtPixelOn(canvas, px, py, pz)
     ELSE AtPixelOn(canvas, 0, 0, 0)]

\* Where the fingertip is: dx pixels left of the first point of the mouth, or
\* right of its last point, and dy pixels below it.
Offsets ==
  { [side |-> "left", dx |-> 10, dy |-> 0], [side |-> "left", dx |-> 19, dy |-> 0],
    [side |-> "left", dx |-> 20, dy |-> 0], [side |-> "left", dx |-> 21, dy |-> 0],
    [side |-> "left", dx |-> 39, dy |-> 0], [side |-> "left", dx |-> 40, dy |-> 0],
    [side |-> "left", dx |-> 41, dy |-> 0], [side |-> "left", dx |-> 79, dy |-> 0],
    [side |-> "left", dx |-> 80, dy |-> 0], [side |-> "left", dx |-> 81, dy |-> 0],
    [side |-> "left", dx |-> 24, dy |-> 32], [side |-> "left", dx |-> 23, dy |-> 32],
    [side |-> "right", dx |-> 39, dy |-> 0], [side |-> "right", dx |-> 40, dy |-> 0] }

\* The pixel column of a fingertip at an offset from the mouth.
TipColumn(offset) ==
  IF offset.side = "left" THEN ZoneAnchor["mouth"].x \div 2 - offset.dx
  ELSE ZoneAnchor["mouth"].x \div 2
         + 2 * (Len(RegionIndices("mouth")) - 1) + offset.dx

\* The depth of the fingertip less the mean depth of the mouth, in pixels.
ZDiffs == {0 - 100, 0 - 50, 10, 49, 50, 60}

FaceDepths == {0, 30}

\* checkFaceTouch is called on a face and the index fingertip of one hand at
\* a measured place.
CheckFaceTouchAt ==
  /\ \E canvas \in Canvases, offset \in Offsets, zDiff \in ZDiffs,
        faceZ \in FaceDepths :
       LET face == TiltedFaceOn(canvas, faceZ)
           hand == HandWithTipOn(canvas, 2, TipColumn(offset),
                                 ZoneAnchor["mouth"].y \div 2 + offset.dy,
                                 MeanZoneZ("mouth", faceZ) + zDiff)
       IN \E touch \in {checkFaceTouch(face, <<hand>>, state.settings, canvas)} :
            Commit([World EXCEPT
                      !.state.lastTouchedZone = touch.zone,
                      !.call = [made |-> TRUE, canvas |-> canvas,
                                offset |-> offset, zDiff |-> zDiff,
                                result |-> touch.touch]])
  /\ UNCHANGED now

NextDistance ==
  \/ CheckFaceTouchAt
  \/ SensitivityInput

SpecDistance == Init /\ [][NextDistance]_vars

(***************************************************************************)
(* SpecPosture: checkPosture on sample poses, between moves of the posture *)
(* toggle and of the posture sensitivity slider.                           *)
(***************************************************************************)
PoseOf(leftEar, rightEar, leftShoulder, rightShoulder, leftHip, rightHip) ==
  [present |-> TRUE,
   leftEar |-> leftEar, rightEar |-> rightEar,
   leftShoulder |-> leftShoulder, rightShoulder |-> rightShoulder,
   leftHip |-> leftHip, rightHip |-> rightHip]

\* The slumped trunk with the far shoulder lower than the near one: the
\* geometry of every check is past its threshold.  The near ear, the two
\* shoulders and the near hip have the visibilities given, the far ear and
\* the far hip are hardly visible.
CrookedPose(ear, nearShoulder, farShoulder, hip) ==
  PoseOf(Lm(8, 2, ear), Lm(8, 2, 20), Lm(5, 5, nearShoulder),
         Lm(5, 7, farShoulder), Lm(4, 9, hip), Lm(4, 9, 20))

\* Poses in which one check alone is past its threshold: the ear straight
\* above the shoulder and the hip straight below it; a level trunk with the
\* far shoulder lower; the ear level with the shoulder and the hip below it;
\* a level trunk with the shoulder ahead of the hip.
OneIssuePoses ==
  { PoseOf(Lm(5, 2, 90), Lm(5, 2, 20), Lm(5, 5, 90), Lm(5, 5, 20),
           Lm(5, 8, 90), Lm(5, 8, 20)),
    PoseOf(Lm(2, 5, 90), Lm(2, 5, 20), Lm(5, 5, 90), Lm(5, 7, 80),
           Lm(8, 5, 90), Lm(8, 5, 20)),
    PoseOf(Lm(2, 5, 90), Lm(2, 5, 20), Lm(5, 5, 90), Lm(5, 5, 20),
           Lm(5, 9, 90), Lm(5, 9, 20)),
    PoseOf(Lm(8, 5, 90), Lm(8, 5, 20), Lm(5, 5, 90), Lm(5, 5, 20),
           Lm(2, 5, 90), Lm(2, 5, 20)) }

\* Poses with both shoulders in view and at the same height, the left
\* shoulder at the larger x (a person facing the camera, not mirrored) and at
\* the smaller x.
LevelShoulderPoses ==
  { PoseOf(Lm(5, 2, 90), Lm(5, 2, 20), Lm(7, 5, 90), Lm(3, 5, 80),
           Lm(7, 8, 90), Lm(7, 8, 20)),
    PoseOf(Lm(5, 2, 90), Lm(5, 2, 20), Lm(3, 5, 90), Lm(7, 5, 80),
           Lm(3, 8, 90), Lm(3, 8, 20)) }

\* The poses a lateral frame can show.
PoseSamples ==
  {NoPose, LevelPose, SlumpedPose}
    \cup OneIssuePoses
    \cup LevelShoulderPoses
    \cup { CrookedPose(90, 90, 80, 90), CrookedPose(40, 90, 80, 90),
           CrookedPose(50, 90, 80, 90), CrookedPose(51, 90, 80, 90),
           CrookedPose(90, 50, 40, 90), CrookedPose(90, 90, 50, 90),
           CrookedPose(90, 90, 80, 50), CrookedPose(90, 90, 80, 40) }

\* The input handler of the posture sensitivity slider.
postureSensitivityInput(w, value) ==
  [w EXCEPT !.state.settings.posture.sensitivity = value]

PostureSensitivityInput ==
  /\ \E value \in SensitivityValues \ {state.settings.posture.sensitivity} :
       \E w \in {postureSensitivityInput(World, value)} : Commit(w)
  /\ UNCHANGED now

\* checkPosture is called on the pose of a lateral frame.
CheckPosture ==
  /\ \E poseLandmarks \in PoseSamples :
       \E res \in {checkPosture(poseLandmarks, state.settings.posture)} :
         Commit([World EXCEPT
                   !.state.currentPostureIssue = res.issue,
                   !.call = [made |-> TRUE,
                             poseLandmarks |-> poseLandmarks,
                             posture |-> state.settings.posture,
                             before |-> state.currentPostureIssue,
                             result |-> res.bad]])
  /\ UNCHANGED now

NextPosture ==
  \/ CheckPosture
  \/ PostureToggle
  \/ PostureSensitivityInput
  \/ GetUserMediaResolves
  \/ GetUserMediaRejects
  \/ LoadedMetadata

SpecPosture == Init /\ [][NextPosture]_vars

(***************************************************************************)
(* SpecStored: the two classifiers on the settings loadSettings finds in   *)
(* the storage, whatever wrote them, between moves of the two sensitivity  *)
(* sliders.                                                                *)
(***************************************************************************)
\* A stored item whose two sensitivities are 0.
ZeroSaved ==
  [saved |-> TRUE,
   settings |-> [DefaultSettings EXCEPT !.sensitivity = 0,
                                        !.posture.enabled = TRUE,
                                        !.posture.sensitivity = 0]]

\* What localStorage.getItem can return to loadSettings.
StoredItems == SavedSettings \cup {ZeroSaved}

InitStored ==
  /\ \E item \in StoredItems : state = loadSettings(InitialState, item)
  /\ timers = {}
  /\ media = InitialMedia
  /\ now = 0
  /\ out = <<>>
  /\ obs = InitialObs
  /\ call = NoCall
  /\ ui = InitialUi

NextStored ==
  \/ CheckFaceTouch
  \/ CheckPosture
  \/ SensitivityInput
  \/ PostureSensitivityInput

SpecStored == InitStored /\ [][NextStored]_vars

(***************************************************************************)
(* SpecZones: the monitor running while its user turns detection zones on  *)
(* and off.                                                                *)
(***************************************************************************)
NextZones ==
  \/ StartMonitoring
  \/ DetectFrame
  \/ TimerFires
  \/ Tick
  \/ ZoneToggle

SpecZones == Init /\ [][NextZones]_vars

(***************************************************************************)
(* SpecLateral: the monitor while its user turns the posture monitor on    *)
(* and off and chooses the lateral camera.                                 *)
(***************************************************************************)
NextLateral ==
  \/ StartMonitoring
  \/ StopMonitoring
  \/ DetectFrame
  \/ TimerFires
  \/ Tick
  \/ GetUserMediaResolves
  \/ GetUserMediaRejects
  \/ LoadedMetadata
  \/ PostureToggle
  \/ LateralCameraSelect

SpecLateral == Init /\ [][NextLateral]_vars

(***************************************************************************)
(* SpecDetect: the cooldown variant of the monitor (detect.js).  It has no *)
(* repeat timer: triggerAlert sets state.alertCooldown and a timeout       *)
(* clears it.  Here state holds the fields of detect.js's state object,    *)
(* timers the timeouts that are pending, media what the camera shows (the  *)
(* landmarks every frame gets until the scene changes), and obs what an    *)
(* observer knows of the touch that the frames are classifying: whether    *)
(* its rising edge, one for handleTouchState too, fell inside a cooldown,  *)
(* and whether it was alerted.                                             *)
(***************************************************************************)
detect_InitialState ==
  [isRunning |-> FALSE,
   animationId |-> NoTimer,
   touchCount |-> 0,
   lastTouchTime |-> NoTime,
   startTime |-> NoTime,
   alertCooldown |-> FALSE,
   isTouching |-> FALSE,
   wasTouching |-> FALSE,
   settings |-> [sensitivity |-> DefaultSensitivity,
                 alertCooldownMs |-> 3 * MsPerSecond,
                 zones |-> DefaultZones],
   lastTouchedZone |-> "null"]

detect_InitialObs == [prev |-> "none", suppressed |-> FALSE, alerted |-> FALSE]

\* The observer sees a frame classified as detected, before it is handled.
detect_ObserveFrame(w, detected) ==
  LET rising == detected /\ w.obs.prev # "true"
  IN [w EXCEPT !.obs =
        IF rising
        THEN [prev |-> "true",
              suppressed |-> w.state.alertCooldown /\ ~w.state.isTouching,
              alerted |-> FALSE]
        ELSE IF detected THEN @
        ELSE [prev |-> "false", suppressed |-> FALSE, alerted |-> FALSE]]

setTimeout(w, owner, delay) ==
  Then(NewHandle(w.timers), LAMBDA id :
    [w EXCEPT !.timers = @ \cup {[id |-> id, owner |-> owner,
                                  interval |-> delay, due |-> w.now + delay]}])

\* The callback triggerAlert hands to setTimeout.
detect_cooldownOver(w) == [w EXCEPT !.state.alertCooldown = FALSE]

detect_triggerAlert(w) ==
  Then([w EXCEPT !.state.touchCount = @ + 1,
                 !.state.lastTouchTime = w.now,
                 !.out = Append(@, [kind |-> "touchOnset",
                                    what |-> zoneNameOf(w.state)]),
                 !.obs.alerted = TRUE,
                 !.state.alertCooldown = TRUE],
       LAMBDA w1 : setTimeout(w1, "cooldown", w1.state.settings.alertCooldownMs))

detect_handleTouchState(w, touchDetected) ==
  Then([w EXCEPT !.state.wasTouching = w.state.isTouching,
                 !.state.isTouching = touchDetected], LAMBDA w1 :
    IF touchDetected /\ ~w1.state.wasTouching /\ ~w1.state.alertCooldown
    THEN detect_triggerAlert(w1)
    ELSE w1)

detect_detectFrame(w, frame) ==
  IF ~w.state.isRunning THEN w
  ELSE
    Then(checkFaceTouch(frame.face, frame.hands, w.state.settings, Canvas),
         LAMBDA touch :
    Then(detect_ObserveFrame([w EXCEPT !.state.lastTouchedZone = touch.zone],
                             touch.touch),
         LAMBDA w1 :
    Then(detect_handleTouchState(w1, touch.touch), LAMBDA w2 :
      [updateUI(w2) EXCEPT !.state.animationId = 1])))

\* requestAnimationFrame runs detectFrame on what the camera shows.
detect_DetectFrame ==
  /\ state.animationId # NoTimer
  /\ \E w \in {detect_detectFrame(World, media.scene)} :
       w.state.touchCount <= MaxCount /\ Commit(w)
  /\ UNCHANGED now

\* What the camera shows changes.
detect_SceneChanges ==
  /\ \E frame \in FrameInputs \ {media.scene} :
       Commit([World EXCEPT !.media.scene = frame])
  /\ UNCHANGED now

\* A timeout that is due runs its callback, once.
detect_TimeoutFires ==
  /\ \E t \in timers :
       /\ t.due <= now
       /\ \E w \in {detect_cooldownOver([World EXCEPT !.timers = @ \ {t}])} :
            Commit(w)
  /\ UNCHANGED now

\* startMonitoring from the point where the models and the camera are ready.
detect_startMonitoring(w, frame) ==
  Then([w EXCEPT !.state.isRunning = TRUE,
                 !.state.startTime = w.now,
                 !.state.touchCount = 0,
                 !.state.lastTouchTime = NoTime],
       LAMBDA w1 : detect_detectFrame(w1, frame))

detect_StartMonitoring ==
  /\ ~state.isRunning
  /\ \E w \in {detect_startMonitoring(World, media.scene)} :
       w.state.touchCount <= MaxCount /\ Commit(w)
  /\ UNCHANGED now

detect_stopMonitoring(w) ==
  [w EXCEPT !.state.isRunning = FALSE,
            !.state.animationId = NoTimer,
            !.obs = detect_InitialObs]

detect_StopMonitoring ==
  /\ state.isRunning
  /\ \E w \in {detect_stopMonitoring(World)} : Commit(w)
  /\ UNCHANGED now

\* The change handler of the cooldown field: values from 1 to 30 seconds are
\* stored, others ignored.
detect_alertCooldownChange(w, value) ==
  IF value >= 1 /\ value <= 30
  THEN [w EXCEPT !.state.settings.alertCooldownMs = value * MsPerSecond]
  ELSE w

detect_AlertCooldownChange ==
  /\ \E value \in CooldownSeconds :
       /\ value * MsPerSecond # state.settings.alertCooldownMs
       /\ \E w \in {detect_alertCooldownChange(World, value)} : Commit(w)
  /\ UNCHANGED now

detect_Init ==
  /\ state = detect_InitialState
  /\ timers = {}
  /\ media \in {[scene |-> frame] : frame \in FrameInputs}
  /\ now = 0
  /\ out = <<>>
  /\ obs = detect_InitialObs
  /\ call = NoCall
  /\ ui = InitialUi

detect_Next ==
  \/ detect_StartMonitoring
  \/ detect_StopMonitoring
  \/ detect_DetectFrame
  \/ detect_SceneChanges
  \/ detect_TimeoutFires
  \/ detect_AlertCooldownChange
  \/ Tick

\* The animation-frame loop runs detectFrame again and again while the
\* monitor runs, far more often than the scene changes: what a frame can do
\* time and again it does.  A timeout that is due runs, and time passes.
SpecDetect ==
  /\ detect_Init
  /\ [][detect_Next]_vars
  /\ SF_vars(detect_DetectFrame)
  /\ WF_vars(detect_TimeoutFires)
  /\ WF_vars(Tick)

(***************************************************************************)
(* What the claims are stated over.                                        *)
(***************************************************************************)
\* The alert state machine of behaviour b in the world w: its two flags, its
\* timer handle, its counter and timestamp, and its live timers.
Machine(w, b) ==
  IF b = "touch"
  THEN [is |-> w.state.isTouching, was |-> w.state.wasTouching,
        handle |-> w.state.continuousBeepTimer,
        count |-> w.state.touchCount, last |-> w.state.lastTouchTime,
        live |-> {t \in w.timers : t.owner = "touch"}]
  ELSE [is |-> w.state.isBadPosture, was |-> w.state.wasBadPosture,
        handle |-> w.state.postureBeepTimer,
        count |-> w.state.postureAlertCount,
        last |-> w.state.lastPostureAlertTime,
        live |-> {t \in w.timers : t.owner = "posture"}]

\* Idle: both flags false, no timer handle, no live timer.
Idle(w, b) ==
  LET m == Machine(w, b)
  IN ~m.is /\ ~m.was /\ m.handle = NoTimer /\ m.live = {}

\* The timer of b is armed: the handle names the one live timer of b.
Armed(w, b) ==
  LET m == Machine(w, b)
  IN m.handle # NoTimer /\ \E t \in m.live : m.live = {t} /\ t.id = m.handle

OnsetKind(b) == IF b = "touch" THEN "touchOnset" ELSE "postureOnset"

ContinuousKind(b) == IF b = "touch" THEN "touchContinuous" ELSE "postureContinuous"

\* How many alerts of a kind a callback emitted.
CountOf(emitted, kind) ==
  Cardinality({i \in DOMAIN emitted : emitted[i].kind = kind})

CooldownOf(s, b) ==
  IF b = "touch" THEN s.settings.alertCooldownMs
  ELSE s.settings.posture.alertCooldownMs

\* The step is a frame on which the observer sees a rising edge of b: the
\* frame is classified true and the frame before it was not, or it is the
\* first frame since monitoring of b started.
Rising(b) == obs.prevFrame[b] # "true" /\ obs'.prevFrame[b] = "true"

(***************************************************************************)
(* The claims.                                                             *)
(***************************************************************************)
\* C1: every rising edge of a behaviour's detection result, the first true
\* frame after monitoring starts included, emits exactly one onset alert of
\* that behaviour and leaves its repeat timer armed, whatever starts, stops,
\* restarts, frames and timer ticks came before.
C1_RisingEdgeEmitsOnset ==
  [][\A b \in Behaviours :
       Rising(b) => /\ CountOf(out', OnsetKind(b)) = 1
                    /\ Armed([state |-> state', timers |-> timers'], b)]_vars

\* A monitor that is running has seen a frame classified as a touch since its
\* start, and has emitted no onset alert since then.
C1_TouchWithoutOnset ==
  /\ state.isRunning
  /\ obs.prevFrame["touch"] = "true"
  /\ obs.onsets["touch"] = 0

\* C2: when the monitor is not running, both alert state machines are Idle:
\* isTouching, wasTouching, isBadPosture and wasBadPosture are false and both
\* timer handles are null.
C2_StoppedIsIdle ==
  ~state.isRunning => \A b \in Behaviours : Idle(World, b)

\* The monitor was stopped during a touch.
C2_StoppedWhileTouching ==
  ~state.isRunning /\ state.isTouching /\ state.continuousBeepTimer = NoTimer

\* C3: while an episode that began with a rising edge at onsetAt is open
\* (detection has stayed true for d = now - onsetAt) and the cooldown at the
\* rising edge was T > 0, exactly one onset alert and floor(d / T) continuous
\* alerts have been emitted, once the timer callbacks due at this instant
\* have run.
C3_OneOnsetAndFloorContinuous ==
  \A b \in Behaviours :
    LET ep == obs.episode[b]
    IN (ep.phase = "open" /\ \A t \in timers : t.owner = b => t.due > now)
       => /\ ep.interval > 0
          /\ ep.onsets = 1
          /\ ep.cont = (now - ep.onsetAt) \div ep.interval

\* Detection has stayed true for a cooldown since a rising edge, and neither
\* an onset nor a continuous alert has been emitted.
C3_SilentEpisode ==
  \E b \in Behaviours :
    LET ep == obs.episode[b]
    IN /\ ep.phase = "open" /\ ep.onsets = 0 /\ ep.cont = 0
       /\ now - ep.onsetAt >= ep.interval

\* What holds of C3: in an open episode whose rising edge did emit its onset
\* alert, floor(d / T) continuous alerts have been emitted.
C3_FloorContinuousAfterOnset ==
  \A b \in Behaviours :
    LET ep == obs.episode[b]
    IN (/\ ep.phase = "open" /\ ep.onsets > 0
        /\ \A t \in timers : t.owner = b => t.due > now)
       => /\ ep.interval > 0
          /\ ep.onsets = 1
          /\ ep.cont = (now - ep.onsetAt) \div ep.interval

\* An episode has lasted two cooldowns and two continuous alerts were emitted.
C3_TwoCooldownsLong ==
  \E b \in Behaviours :
    LET ep == obs.episode[b]
    IN /\ ep.phase = "open"
       /\ now - ep.onsetAt = 2 * ep.interval
       /\ ep.cont = 2

\* C4: an episode in which detection went false before the first timer tick
\* had exactly one onset alert and no continuous alert, it left the state
\* machine without a timer, and no continuous alert has followed.
C4_ShortEpisode ==
  \A b \in Behaviours :
    LET ep == obs.episode[b]
    IN (ep.phase = "fallen" /\ ~ep.ticked)
         => /\ ep.onsets = 1
            /\ ep.cont = 0
            /\ ~Machine(World, b).is
            /\ Machine(World, b).handle = NoTimer
            /\ Machine(World, b).live = {}

\* An episode ended before any timer tick and without an onset alert.
C4_ShortEpisodeWithoutOnset ==
  \E b \in Behaviours :
    LET ep == obs.episode[b]
    IN ep.phase = "fallen" /\ ~ep.ticked /\ ep.onsets = 0

\* What holds of C4: an episode that ended before its first tick had at most
\* one onset alert and no continuous alert, and left no timer behind.
C4_ShortEpisodeLeavesNoTimer ==
  \A b \in Behaviours :
    LET ep == obs.episode[b]
    IN (ep.phase = "fallen" /\ ~ep.ticked)
         => /\ ep.onsets <= 1
            /\ ep.cont = 0
            /\ ~Machine(World, b).is
            /\ Machine(World, b).handle = NoTimer
            /\ Machine(World, b).live = {}

\* C5: from the frame that sees detection go from true to false until the
\* next onset alert, the timer handle is null, no timer of the behaviour is
\* live and no callback emits a continuous alert of the behaviour.
C5_FallingEdgeCancels ==
  \A b \in Behaviours :
    obs.episode[b].phase = "fallen"
      => /\ Machine(World, b).handle = NoTimer
         /\ Machine(World, b).live = {}
         /\ CountOf(out, ContinuousKind(b)) = 0

\* An episode that had continuous alerts has ended at a falling edge.
C5_FellAfterContinuous ==
  \E b \in Behaviours :
    obs.episode[b].phase = "fallen" /\ obs.episode[b].cont > 0

\* The world w with the active flag of behaviour b set to flag.
WithFlag(w, b, flag) ==
  IF b = "touch" THEN [w EXCEPT !.state.isTouching = flag]
  ELSE [w EXCEPT !.state.isBadPosture = flag]

\* C6: a timer tick reads the behaviour's active flag as it is when the tick
\* runs: whatever the flag is then, the tick emits one continuous alert of its
\* behaviour and stays live if the flag is true, and emits nothing, clears the
\* timer handle and is live no more if the flag is false.
C6_TickReadsCurrentFlag ==
  \A t \in timers, flag \in BOOLEAN :
    \A w \in {fire(WithFlag(World, t.owner, flag), t)} :
      IF flag
      THEN /\ w.out = <<[kind |-> ContinuousKind(t.owner),
                         what |-> w.out[1].what]>>
           /\ \E u \in w.timers : u.id = t.id /\ u.due = t.due + t.interval
      ELSE /\ w.out = <<>>
           /\ Machine(w, t.owner).handle = NoTimer
           /\ \A u \in w.timers : u.id # t.id

\* A timer tick has just emitted a continuous alert.
C6_TickEmitted ==
  \E b \in Behaviours :
    /\ CountOf(out, ContinuousKind(b)) = 1
    /\ Machine(World, b).is
    /\ Armed(World, b)

\* C7: while posture detection is turned off the posture state machine is
\* Idle (isBadPosture and wasBadPosture false, timer handle null, no posture
\* timer live) and no callback emits a posture alert.
C7_DisabledPostureIsIdle ==
  ~state.settings.posture.enabled
    => /\ Idle(World, "posture")
       /\ CountOf(out, "postureOnset") = 0
       /\ CountOf(out, "postureContinuous") = 0

\* Posture detection was turned off after a posture alert, the monitor runs
\* on and the lateral video has finished loading since.
C7_DisabledAfterAlert ==
  /\ ~state.settings.posture.enabled
  /\ state.isRunning
  /\ state.lateralVideo
  /\ obs.onsets["posture"] > 0
  /\ obs.prevFrame["touch"] # "none"

\* C8: each behaviour's counter is the number of onset alerts emitted for it
\* since the last startMonitoring or resetStatistics, and its timestamp is the
\* time of the last of them (null if there is none): an onset alert adds one
\* and records the time, a continuous alert changes neither.
C8_CounterCountsOnsets ==
  \A b \in Behaviours :
    /\ Machine(World, b).count = obs.onsets[b]
    /\ Machine(World, b).last = obs.lastOnsetAt[b]

\* Both counters have counted, and a continuous alert came after the last
\* touch onset.
C8_CountedWithContinuous ==
  /\ state.touchCount = 2
  /\ state.postureAlertCount > 0
  /\ obs.episode["touch"].cont > 0
  /\ state.lastTouchTime < now

\* The part of the world that belongs to behaviour b's alerts.
AlertView(w, b) ==
  [is |-> Machine(w, b).is, was |-> Machine(w, b).was,
   handle |-> Machine(w, b).handle, count |-> Machine(w, b).count,
   live |-> Machine(w, b).live]

\* C9: a touch step (the touch update of a frame, a touch timer tick) leaves
\* isBadPosture, wasBadPosture, the posture timer handle, the posture timers
\* and the posture counter as they were, and a posture step (the posture
\* update of a frame, a posture timer tick, turning posture off) leaves
\* isTouching, wasTouching, the touch timer handle, the touch timers and the
\* touch counter as they were.
C9_BehavioursDoNotInteract ==
  /\ \A detected \in BOOLEAN :
       /\ AlertView(handleTouchState(World, detected), "posture")
            = AlertView(World, "posture")
       /\ AlertView(handlePostureState(World, detected), "touch")
            = AlertView(World, "touch")
  /\ \A t \in timers :
       LET other == IF t.owner = "touch" THEN "posture" ELSE "touch"
       IN AlertView(fire(World, t), other) = AlertView(World, other)
  /\ AlertView(postureToggleChange(World, FALSE), "touch") = AlertView(World, "touch")

\* Both state machines are active with their timers armed.
C9_BothActive ==
  /\ state.isTouching /\ Armed(World, "touch")
  /\ state.isBadPosture /\ Armed(World, "posture")

\* Whether any zone is enabled in the settings s.
AnyZoneEnabled(s) == \E z \in Zones : s.zones[z]

\* C10: a call of checkFaceTouch with no face landmarks, or with an empty
\* hand list, or with every zone disabled, returns false and leaves
\* lastTouchedZone null, whatever the other inputs and whatever
\* lastTouchedZone was before.
C10_NothingToCheck ==
  (/\ call.made
   /\ \/ ~call.faceLandmarks.present
      \/ Len(call.handLandmarksList) = 0
      \/ ~AnyZoneEnabled(state.settings))
    => ~call.result /\ state.lastTouchedZone = "null"

\* A call with a face and a hand but every zone disabled, after a call that
\* had found a touch.
C10_AllZonesDisabled ==
  /\ call.made
  /\ call.faceLandmarks.present
  /\ Len(call.handLandmarksList) > 0
  /\ ~AnyZoneEnabled(state.settings)
  /\ call.before # "null"

\* The threshold the sensitivity settings of the slider are said to give.
ClaimedThreshold(sensitivity) ==
  CASE sensitivity = 100 -> 40
    [] sensitivity = 200 -> 20
    [] sensitivity = 50 -> 80

\* The square of the planar distance of the fingertip of a measured call from
\* the mouth.
CallDistSq == call.offset.dx * call.offset.dx + call.offset.dy * call.offset.dy

\* C11: the distance threshold of checkFaceTouch is 40 / (sensitivity / 100),
\* 40 at sensitivity 100, 20 at 200 and 80 at 50, on a canvas of any size: a
\* fingertip that passes the depth check is a touch exactly if its distance
\* in pixels is less than that.
C11_ThresholdFromSensitivity ==
  (call.made /\ call.zDiff < zTolerance)
    => (call.result <=>
          CallDistSq < ClaimedThreshold(state.settings.sensitivity)
                         * ClaimedThreshold(state.settings.sensitivity))

\* A fingertip 19 pixels from the mouth was a touch at sensitivity 200 on the
\* canvas of half the ideal size.
C11_HalfCanvasAt200 ==
  /\ call.made /\ call.result
  /\ call.canvas.width = IdealWidth \div 2
  /\ state.settings.sensitivity = 200
  /\ call.offset = [side |-> "left", dx |-> 19, dy |-> 0]

C13_HandInFrontRejected ==
  (/\ call.made
   /\ CallDistSq * state.settings.sensitivity * state.settings.sensitivity
        < (40 * 100) * (40 * 100)
   /\ call.zDiff <= 0 - 50)
    => ~call.result

\* A fingertip 10 pixels from the mouth and 100 in front of it was reported
\* as a touch.
C13_TouchFarInFront ==
  /\ call.made /\ call.result
  /\ call.offset = [side |-> "left", dx |-> 10, dy |-> 0]
  /\ call.zDiff = 0 - 100

\* The (hand, fingertip, zone) triples of the last call that satisfy the touch
\* condition, the zone being enabled.
AcceptedTriples ==
  {t \in [hand : 1..Len(call.handLandmarksList),
          finger : 1..Len(FINGERTIPS),
          zone : {z \in Zones : state.settings.zones[z]}] :
     Accepts(call.faceLandmarks, call.handLandmarksList, state.settings, Canvas, t)}

\* The place of a zone in the order mouth, nose, leftEye, rightEye, leftCheek,
\* rightCheek, chin.
ZonePlace(zone) == PositionIn(ZoneOrder, zone)

\* The triple t is not after the triple u: hands first, then fingertips, then
\* zones.
NotAfter(t, u) ==
  \/ t.hand < u.hand
  \/ t.hand = u.hand /\ t.finger < u.finger
  \/ t.hand = u.hand /\ t.finger = u.finger /\ ZonePlace(t.zone) <= ZonePlace(u.zone)

\* The square of the distance of the fingertip of a triple from its zone.
TripleDistSq(t) ==
  LET indices == RegionIndices(t.zone)
  IN getMinDistance(
       ToPixel(call.handLandmarksList[t.hand][FINGERTIPS[t.finger]], Canvas),
       [j \in 1..Len(indices) |-> ToPixel(call.faceLandmarks.lm[indices[j]], Canvas)])

\* C14: when several (hand, fingertip, zone) triples satisfy the touch
\* condition, checkFaceTouch records the zone of the first of them in the
\* order hands, then fingertips thumb to pinky, then zones mouth, nose,
\* leftEye, rightEye, leftCheek, rightCheek, chin, even when another triple is
\* closer; it reports a touch exactly if some triple satisfies the condition.
C14_FirstAcceptedTripleWins ==
  (call.made /\ call.faceLandmarks.present /\ Len(call.handLandmarksList) > 0)
    => /\ call.result <=> AcceptedTriples # {}
       /\ call.result =>
            \E t \in AcceptedTriples :
              /\ \A u \in AcceptedTriples : NotAfter(t, u)
              /\ state.lastTouchedZone = t.zone

\* The zone recorded is that of a triple that is farther from its zone than
\* another accepted triple, of a later hand, a later fingertip or a later
\* zone, is from its own.
C14_FirstIsNotClosest ==
  /\ call.made /\ call.result
  /\ \E t \in AcceptedTriples, u \in AcceptedTriples :
       /\ \A v \in AcceptedTriples : NotAfter(t, v)
       /\ state.lastTouchedZone = t.zone
       /\ TripleDistSq(u) < TripleDistSq(t)
       /\ u.hand > t.hand
  /\ \E t \in AcceptedTriples, u \in AcceptedTriples :
       /\ u.hand = t.hand /\ u.finger = t.finger
       /\ ZonePlace(u.zone) > ZonePlace(t.zone)
       /\ state.lastTouchedZone = t.zone
       /\ TripleDistSq(u) < TripleDistSq(t)

\* The labels of the four posture checks, in the order of the checks.
IssueLabels ==
  <<"Head forward", "Uneven shoulders", "Spine curved", "Shoulders hunched">>

\* The lists of distinct labels, in any order.
LabelLists ==
  {q \in UNION {[1..n -> Range(IssueLabels)] : n \in 0..Len(IssueLabels)} :
     \A i \in DOMAIN q, j \in DOMAIN q : q[i] = q[j] => i = j}

\* The issue list that was joined into the value of currentPostureIssue.
IssuesIn(issue) ==
  IF issue = "null" THEN <<>> ELSE CHOOSE q \in LabelLists : Join(q) = issue

Max(a, b) == IF a > b THEN a ELSE b

\* C15: checkPosture evaluates a check only if every landmark it uses has a
\* visibility strictly greater than 0.5: a check with a landmark at 0.5 or
\* less adds no issue whatever the geometry; with the selected ear at 0.4
\* neither Head forward nor Spine curved is reported.
C15_UnseenLandmarkAddsNoIssue ==
  call.made =>
    LET pose == call.poseLandmarks
        issues == Range(IssuesIn(state.currentPostureIssue))
        ear == Max(pose.leftEar.visibility, pose.rightEar.visibility)
        shoulder == Max(pose.leftShoulder.visibility, pose.rightShoulder.visibility)
        hip == Max(pose.leftHip.visibility, pose.rightHip.visibility)
    IN /\ (ear <= 50 \/ shoulder <= 50) => "Head forward" \notin issues
       /\ (pose.leftShoulder.visibility <= 50 \/ pose.rightShoulder.visibility <= 50)
            => "Uneven shoulders" \notin issues
       /\ (ear <= 50 \/ shoulder <= 50 \/ hip <= 50) => "Spine curved" \notin issues
       /\ (shoulder <= 50 \/ hip <= 50) => "Shoulders hunched" \notin issues

\* The pose whose geometry is past every threshold was checked with the ear
\* at visibility 0.4, posture detection on and sensitivity 100: the two checks
\* that do not use the ear reported their issues.
C15_EarAtFourTenths ==
  /\ call.made /\ call.result
  /\ call.poseLandmarks = CrookedPose(40, 90, 80, 90)
  /\ call.posture.sensitivity = 100
  /\ state.currentPostureIssue = "Uneven shoulders, Shoulders hunched"

\* The labels of the checks that fire on the pose of the last call.
FiredLabels ==
  LET pose == call.poseLandmarks
      posture == call.posture
      Fired(label) ==
        CASE label = "Head forward" -> headForwardCheck(pose, posture)
          [] label = "Uneven shoulders" -> shoulderSlouchCheck(pose, posture)
          [] label = "Spine curved" -> spineCheck(pose, posture)
          [] label = "Shoulders hunched" -> hunchCheck(pose, posture)
  IN SelectSeq(IssueLabels, Fired)

\* C16: the four posture checks are independent: the issue list holds exactly
\* the labels of the checks that fired, in the order Head forward, Uneven
\* shoulders, Spine curved, Shoulders hunched, and checkPosture returns bad
\* posture exactly if the list is not empty.
C16_IssuesAreTheFiredChecks ==
  (call.made /\ call.poseLandmarks.present /\ call.posture.enabled)
    => /\ IssuesIn(state.currentPostureIssue) = FiredLabels
       /\ call.result <=> Len(FiredLabels) > 0

\* All four checks fired and the issue names the four in the order of the
\* checks.
C16_AllFourIssues ==
  /\ call.made /\ call.result
  /\ state.currentPostureIssue
       = "Head forward, Uneven shoulders, Spine curved, Shoulders hunched"

\* C17: checkPosture reports no bad posture and sets currentPostureIssue to
\* null whenever the pose is absent or posture detection is turned off,
\* whatever the landmarks and the issue before the call are.
C17_NoPoseOrDisabledIsGood ==
  (call.made /\ (~call.poseLandmarks.present \/ ~call.posture.enabled))
    => ~call.result /\ state.currentPostureIssue = "null"

\* With posture detection off, the pose whose geometry is past every
\* threshold was checked after a call that had left an issue.
C17_DisabledAfterIssue ==
  /\ call.made
  /\ ~call.posture.enabled
  /\ call.poseLandmarks = CrookedPose(90, 90, 80, 90)
  /\ call.before # "null"

\* C18: whenever a classifier divides by a sensitivity, the sensitivity is
\* strictly greater than 0, however the settings were written: by the two
\* sliders or by loadSettings from the storage.
C18_SensitivityPositiveAtUse ==
  call.made =>
    IF "poseLandmarks" \in DOMAIN call
    THEN (call.poseLandmarks.present /\ call.posture.enabled)
           => call.posture.sensitivity > 0
    ELSE (/\ call.faceLandmarks.present
          /\ Len(call.handLandmarksList) > 0
          /\ AnyZoneEnabled(state.settings))
           => state.settings.sensitivity > 0

\* With a stored sensitivity of 0, a fingertip in the corner of the frame, far
\* from the face, was classified as a touch.
C18_ZeroSensitivityTouch ==
  /\ call.made
  /\ "faceLandmarks" \in DOMAIN call
  /\ state.settings.sensitivity = 0
  /\ call.handLandmarksList = <<HandWithTip(2, 100, 100, 0)>>
  /\ call.result

\* C19: a change of a cooldown setting takes effect on the next tick: two
\* alerts in a row of an active behaviour that were both emitted after its
\* cooldown setting was last written are spaced by the value written then.
C19_SpacedByNewInterval ==
  [][\A b \in Behaviours :
       (/\ obs'.episode[b].cont = obs.episode[b].cont + 1
        /\ obs.episode[b].since >= 1)
         => now - obs.episode[b].lastAt = CooldownOf(state, b)]_vars

\* A timer tick has emitted the second alert since the cooldown was changed,
\* from a timer whose interval is not the cooldown setting.
C19_TickAtOldInterval ==
  \E b \in Behaviours :
    /\ obs.episode[b].since >= 2
    /\ CountOf(out, ContinuousKind(b)) = 1
    /\ \E t \in timers : t.owner = b /\ t.interval # CooldownOf(state, b)

\* The step runs detectFrame, and with it updateUI: a frame of the running
\* monitor, or the end of startMonitoring, which runs the first frame.
FrameRan ==
  \/ state.isRunning /\ DetectFrame
  \/ ~state.isRunning /\ state'.isRunning

\* C20: the touch rate the statistics show is touchCount divided by the hours
\* elapsed since the start of the session (to the tenth that is shown), and
\* 0 whenever no time has elapsed, immediately after a start or a restart
\* included; computing it changes no detection or alert state.
C20_RateIsCountPerHour ==
  [][/\ FrameRan =>
          LET elapsed == now' - state'.startTime
              shown == ui'.touchRate
              exact == 2 * 10 * state'.touchCount * MsPerHour
          IN /\ elapsed = 0 => shown = 0
             /\ elapsed > 0 => /\ exact - 2 * shown * elapsed <= elapsed
                               /\ 2 * shown * elapsed - exact <= elapsed
     /\ [updateUI(World) EXCEPT !.ui = ui] = World]_vars

\* Monitoring was restarted and its first frame handled, no time has elapsed
\* and no touch has been counted, and the rate shown is not 0.
C20_StaleRateAfterRestart ==
  /\ state.isRunning
  /\ now = state.startTime
  /\ obs.prevFrame["touch"] # "none"
  /\ state.touchCount = 0
  /\ ui.touchRate > 0

\* What holds of C20: after a frame at which some time has elapsed since the
\* start of the session, the rate shown is touchCount per hour elapsed, and
\* updateUI changes nothing but what the page shows.
C20_RateAfterSomeTime ==
  [][/\ (FrameRan /\ now' - state'.startTime > 0) =>
          LET elapsed == now' - state'.startTime
              shown == ui'.touchRate
              exact == 2 * 10 * state'.touchCount * MsPerHour
          IN /\ exact - 2 * shown * elapsed <= elapsed
             /\ 2 * shown * elapsed - exact <= elapsed
     /\ [updateUI(World) EXCEPT !.ui = ui] = World]_vars

\* The zones the alert's text can stand for.
ZonesNamed(what) == {z \in Zones : getZoneDisplayName(z) = what}

TouchKinds == {"touchOnset", "touchContinuous"}

\* C21: every touch alert, onset or continuous, names a zone that is enabled
\* in the settings at the moment the alert is emitted, however frames, timer
\* callbacks and changes of the zone toggles interleave.
C21_AlertNamesEnabledZone ==
  \A i \in DOMAIN out :
    out[i].kind \in TouchKinds =>
      \E z \in ZonesNamed(out[i].what) : state.settings.zones[z]

\* A timer callback has just emitted a continuous alert for the mouth, whose
\* toggle was turned off after the last frame.
C21_ContinuousForDisabledMouth ==
  /\ out # <<>>
  /\ out[1] = [kind |-> "touchContinuous", what |-> "Mouth"]
  /\ ~state.settings.zones["mouth"]

\* What holds of C21: an onset alert names a zone that is enabled.
C21_OnsetNamesEnabledZone ==
  \A i \in DOMAIN out :
    out[i].kind = "touchOnset" =>
      \E z \in ZonesNamed(out[i].what) : state.settings.zones[z]

\* Both shoulders of the pose of the last call are visible and at one height.
ShouldersLevelInCall ==
  /\ call.made /\ call.poseLandmarks.present /\ call.posture.enabled
  /\ Visible(call.poseLandmarks.leftShoulder)
  /\ Visible(call.poseLandmarks.rightShoulder)
  /\ call.poseLandmarks.leftShoulder.y = call.poseLandmarks.rightShoulder.y

\* C22: the shoulder-tilt check measures the angle of the line through the
\* two shoulders from the horizontal: with both shoulders visible and at the
\* same height 'Uneven shoulders' is not reported, whichever shoulder has the
\* larger x.
C22_LevelShouldersNotUneven ==
  ShouldersLevelInCall =>
    "Uneven shoulders" \notin Range(IssuesIn(state.currentPostureIssue))

\* Level shoulders, the left one at the larger x, were reported as uneven at
\* the default sensitivity.
C22_LevelShouldersReportedUneven ==
  /\ ShouldersLevelInCall
  /\ call.poseLandmarks.leftShoulder.x > call.poseLandmarks.rightShoulder.x
  /\ call.posture.sensitivity = DefaultSensitivity
  /\ "Uneven shoulders" \in Range(IssuesIn(state.currentPostureIssue))

\* What holds of C22: level shoulders are not reported as uneven when the
\* right shoulder is not at the smaller x.
C22_LevelShouldersLeftFirst ==
  (/\ ShouldersLevelInCall
   /\ call.poseLandmarks.leftShoulder.x <= call.poseLandmarks.rightShoulder.x)
    => "Uneven shoulders" \notin Range(IssuesIn(state.currentPostureIssue))

\* The last call of checkPosture ran the head-forward check at the default
\* threshold and sensitivity: the pose present, posture detection on, the
\* selected ear and shoulder visible.
HeadCheckedAtDefaults ==
  /\ call.made /\ call.poseLandmarks.present /\ call.posture.enabled
  /\ Visible(selectedEar(call.poseLandmarks))
  /\ Visible(selectedShoulder(call.poseLandmarks))
  /\ call.posture.sensitivity = DefaultSensitivity
  /\ call.posture.headForwardThreshold = DefaultSettings.posture.headForwardThreshold

\* C23: the head-forward check treats an ear above the shoulder as good
\* posture: with the selected ear and shoulder visible and the ear directly
\* above the shoulder (same x, smaller y) 'Head forward' is not reported at
\* the default threshold and sensitivity; it is reported only when the ear is
\* displaced in x from the shoulder.
C23_EarAboveShoulderIsGood ==
  HeadCheckedAtDefaults =>
    LET ear == selectedEar(call.poseLandmarks)
        shoulder == selectedShoulder(call.poseLandmarks)
        reported == "Head forward" \in Range(IssuesIn(state.currentPostureIssue))
    IN /\ (ear.x = shoulder.x /\ ear.y < shoulder.y) => ~reported
       /\ reported => ear.x # shoulder.x

\* The upright pose, ear straight above the shoulder and hip straight below
\* it, was reported as 'Head forward' and nothing else.
C23_UprightReportedHeadForward ==
  /\ HeadCheckedAtDefaults
  /\ selectedEar(call.poseLandmarks).x = selectedShoulder(call.poseLandmarks).x
  /\ selectedEar(call.poseLandmarks).y < selectedShoulder(call.poseLandmarks).y
  /\ state.currentPostureIssue = "Head forward"

\* What the check does instead: an ear level with the shoulder, as far in
\* front of it as can be, is not reported as 'Head forward'.
C23_EarLevelWithShoulderNotReported ==
  (/\ HeadCheckedAtDefaults
   /\ selectedEar(call.poseLandmarks).y = selectedShoulder(call.poseLandmarks).y
   /\ selectedEar(call.poseLandmarks).x # selectedShoulder(call.poseLandmarks).x)
    => "Head forward" \notin Range(IssuesIn(state.currentPostureIssue))

\* The callback of the step emitted a continuous posture alert.
PostureContinuousEmitted ==
  \E i \in DOMAIN out' : out'[i].kind = "postureContinuous"

\* C24: while posture detection is enabled the posture alert is active only
\* while the frames process pose samples: once the lateral source is gone
\* (camera deselected, stopped or being initialised again) no continuous
\* posture alert is emitted until a frame classifies a pose again.
C24_NoContinuousWithoutSamples ==
  [][(PostureContinuousEmitted /\ state.settings.posture.enabled)
       => (state.isRunning /\ state.lateralVideo)]_vars

\* A timer callback has just emitted a continuous posture alert with posture
\* detection on and no lateral video: no frame has classified a pose since
\* the camera went.
C24_ContinuousWithoutLateralVideo ==
  /\ \E i \in DOMAIN out : out[i].kind = "postureContinuous"
  /\ state.settings.posture.enabled
  /\ state.isRunning
  /\ ~state.lateralVideo
  /\ ~state.lateralStream

\* No handler is suspended: no getUserMedia request is pending and no
\* stream is waiting for its loadedmetadata event.
NoHandlerPending ==
  /\ media.pending = <<>>
  /\ media.srcObject # "loading"
  /\ media.starting = "no"

\* C29: however the posture-toggle handler, the camera-select handler and
\* the completion of initializeLateralCamera interleave, once every pending
\* handler has completed with posture detection off the lateral camera is
\* stopped: state.lateralStream and state.lateralVideo are null.
C29_DisabledMeansCameraStopped ==
  (NoHandlerPending /\ ~state.settings.posture.enabled)
    => (~state.lateralStream /\ ~state.lateralVideo)

\* Posture detection is off, nothing is pending, and the lateral stream that
\* was requested while it was on is running.
C29_StreamRunsWhileDisabled ==
  /\ NoHandlerPending
  /\ ~state.settings.posture.enabled
  /\ state.lateralStream
  /\ state.lateralVideo
  /\ media.srcObject = "loaded"

\* The handle the state stores for the repeat timer of behaviour b.
StoredTimer(b) ==
  IF b = "touch" THEN state.continuousBeepTimer ELSE state.postureBeepTimer

\* C25: at most one repeat timer per behaviour is live: every interval timer
\* created by startContinuousBeep or startPostureContinuousAlert is the one
\* whose handle the state stores, or has been cleared, after any sequence of
\* frames, timer callbacks, toggles, stops and restarts.
C25_LiveTimersAreStored ==
  /\ \A t \in timers : t.id = StoredTimer(t.owner)
  /\ \A b \in Behaviours : Cardinality({t \in timers : t.owner = b}) <= 1

\* Both repeat timers are live, the touch timer being that of the second
\* touch of the session: the timer of the first touch was cleared.
C25_SecondTimerLive ==
  /\ Cardinality(timers) = 2
  /\ state.touchCount = 2
  /\ state.continuousBeepTimer # NoTimer
  /\ state.postureBeepTimer # NoTimer

\* C26: at every callback boundary a live repeat timer implies that its
\* behaviour is active: continuousBeepTimer is not null only if isTouching,
\* postureBeepTimer is not null only if isBadPosture.
C26_TimerImpliesActive ==
  /\ state.continuousBeepTimer # NoTimer => state.isTouching
  /\ state.postureBeepTimer # NoTimer => state.isBadPosture

\* Both timers have run their callbacks and are still live, with both
\* behaviours active.
C26_BothTimersTicked ==
  /\ state.continuousBeepTimer # NoTimer /\ state.isTouching
  /\ state.postureBeepTimer # NoTimer /\ state.isBadPosture
  /\ obs.episode["touch"].cont > 0
  /\ obs.episode["posture"].cont > 0

\* C27: whenever a touch alert is emitted, onset or continuous,
\* lastTouchedZone is not null, so the alert names a zone and never the
\* fallback 'Face'; at every callback boundary isTouching implies that
\* lastTouchedZone is not null.
C27_TouchAlertNamesZone ==
  /\ state.isTouching => state.lastTouchedZone # "null"
  /\ \A i \in DOMAIN out :
       out[i].kind \in TouchKinds =>
         /\ state.lastTouchedZone # "null"
         /\ out[i].what # "Face"
         /\ out[i].what = getZoneDisplayName(state.lastTouchedZone)

\* A timer callback has just emitted a continuous alert, which names the
\* mouth, the zone of the touch that is going on.
C27_ContinuousNamesMouth ==
  /\ out = <<[kind |-> "touchContinuous", what |-> "Mouth"]>>
  /\ state.isTouching
  /\ state.lastTouchedZone = "mouth"
  /\ state.touchCount > 0

detect_Outlasted ==
  /\ state.isRunning
  /\ state.touchCount < MaxCount
  /\ obs.prev = "true"
  /\ obs.suppressed
  /\ ~obs.alerted
  /\ ~state.alertCooldown

\* C30: in the cooldown variant (detect.js) a touch whose rising edge falls
\* inside the cooldown of an earlier alert is eventually alerted and counted
\* once the cooldown has expired, if the touch is still being detected: no
\* touch that outlasts the cooldown stays unalerted.
C30_OutlastingTouchIsAlerted ==
  detect_Outlasted ~> (obs.alerted \/ obs.prev # "true" \/ ~state.isRunning)

\* The touch has outlasted the cooldown of the alert before it, a second has
\* passed since the cooldown ended, frames have classified it since, and it
\* is neither alerted nor counted.
C30_UnalertedAfterCooldown ==
  /\ detect_Outlasted
  /\ state.isTouching /\ state.wasTouching
  /\ state.touchCount = 1
  /\ timers = {}
  /\ now >= state.lastTouchTime + state.settings.alertCooldownMs + MsPerSecond
  /\ out = <<>>

====
